---- MODULE Spec2Model ----
(***************************************************************************)
(* Barter-inventory valuation and transaction assessment engines:          *)
(* PricingCalculator (pricing_calculator.py) and FinancialCalculator       *)
(* (financial_calculator.py) over the tables of InventoryManager.          *)
(*                                                                         *)
(* Numbers.  Currency amounts are integers in mils (0.001 yuan); a         *)
(* product that is not a whole number of mils loses the part below a mil.  *)
(* Ratios (realization rate, profit margin, ROI) are exact fractions       *)
(* [n, d] with d > 0 and are compared without ever being divided out.      *)
(* A ratio with d = 0 is what numpy's float division by 0.0 returns: inf   *)
(* for n > 0, -inf for n < 0, nan for n = 0.  A Python float division by   *)
(* 0.0 raises ZeroDivisionError; a call that ends by an exception nobody   *)
(* catches has the result [exception |-> name].                            *)
(* round(x, 2) and round(x, 4) round to the nearest, ties to even.         *)
(* Optional values are sequences: <<>> is None, <<v>> is the value v.      *)
(* expiry_date is held as the whole number of days from now to the date,   *)
(* which is the only thing the code ever computes from it.                 *)
(*                                                                         *)
(* Strings.  The Chinese literals of the source are written in ASCII:      *)
(* channel types "S" "A" "B" for S/A/B-ji, and "S(tuanzhang)",             *)
(* "A(pifashichang)" for the two long forms the add-channel form stores;   *)
(* categories "beverage" (yinliao), "daily_chemical" (rihua), "appliance"  *)
(* (jiadian), "food" (shipin), "other" (qita); risk levels "high_risk"     *)
(* (gao fengxian), "medium_risk", "low_risk"; every risk factor and        *)
(* recommendation sentence by a tag naming the rule that emits it.         *)
(***************************************************************************)
EXTENDS Integers, Sequences, FiniteSets, TLC

VARIABLES inventory, brands, media_resources, sales_channels, transactions,
          risk_rules, price_source, call, result

vars == <<inventory, brands, media_resources, sales_channels, transactions,
          risk_rules, price_source, call, result>>

db == <<inventory, brands, media_resources, sales_channels, transactions,
        risk_rules, price_source>>

----------------------------------------------------------------------------
(* Optional values and Python truthiness *)

None == <<>>

Some(v) == <<v>>

\* `if x:` on an Optional number: None and 0 are both false
Truthy(x) == x # None /\ x[1] # 0

\* `x or 0`
OrZero(x) == IF Truthy(x) THEN x[1] ELSE 0

----------------------------------------------------------------------------
(* Exact arithmetic *)

Yuan(y) == y * 1000

Rat(n, d) == [n |-> n, d |-> d]

\* n/d < a/b for d > 0, b > 0, without forming the cross products
RECURSIVE FracLess(_, _, _, _)
FracLess(n, d, a, b) ==
    LET q1 == n \div d
        q2 == a \div b
        r1 == n % d
        r2 == a % b
    IN  IF q1 # q2 THEN q1 < q2
        ELSE IF r2 = 0 THEN FALSE
        ELSE IF r1 = 0 THEN TRUE
        ELSE FracLess(b, r2, d, r1)

Lt(x, y) == FracLess(x.n, x.d, y.n, y.d)

Gt(x, y) == Lt(y, x)

Ge(x, y) == ~Lt(x, y)

Le(x, y) == ~Lt(y, x)

RatEq(x, y) == ~Lt(x, y) /\ ~Lt(y, x)

RatMul(x, y) == Rat(x.n * y.n, x.d * y.d)

\* Python max(a, b) and min(a, b): the first argument wins a tie
PyMax(a, b) == IF Gt(b, a) THEN b ELSE a

PyMin(a, b) == IF Lt(b, a) THEN b ELSE a

\* <<floor(a*b/c), (a*b) mod c>> for b >= 0, c > 0, by doubling
RECURSIVE MulDivRem(_, _, _)
MulDivRem(a, b, c) ==
    IF b = 0 THEN <<0, 0>>
    ELSE LET h  == MulDivRem(a, b \div 2, c)
             q2 == 2 * h[1] + (IF 2 * h[2] >= c THEN 1 ELSE 0)
             r2 == IF 2 * h[2] >= c THEN 2 * h[2] - c ELSE 2 * h[2]
             qa == IF b % 2 = 1 THEN a \div c ELSE 0
             ra == IF b % 2 = 1 THEN a % c ELSE 0
         IN  IF r2 + ra >= c THEN <<q2 + qa + 1, r2 + ra - c>>
             ELSE <<q2 + qa, r2 + ra>>

\* amount * b / c for any sign of b
Scale(a, b, c) == IF b >= 0 THEN MulDivRem(a, b, c)[1]
                  ELSE MulDivRem(0 - a, 0 - b, c)[1]

\* amount * ratio
Times(a, r) == Scale(a, r.n, r.d)

\* nearest integer to (q + r/d), ties to even
Nearest(q, r, d) ==
    IF 2 * r > d THEN q + 1
    ELSE IF 2 * r < d THEN q
    ELSE IF q % 2 = 0 THEN q ELSE q + 1

\* round(amount, 2): an amount in mils rounded to whole cents, still in mils
Round2(m) == 10 * Nearest(m \div 10, m % 10, 10)

\* round(ratio, 4): the ratio in units of 0.0001
Round4(r) ==
    LET p == MulDivRem(r.n, 10000, r.d)
    IN  Nearest(p[1], p[2], r.d)

----------------------------------------------------------------------------
(* FinancialCalculator.financial_params *)

default_realization_rate == Rat(8, 100)

min_realization_rate == Rat(5, 100)

max_realization_rate == Rat(15, 100)

min_profit_margin == Rat(2, 10)

storage_cost_per_unit == Yuan(2)

logistics_cost_ratio == Rat(2, 100)

\* the literal 0.01 of calculate_cost_breakdown
operational_cost_ratio == Rat(1, 100)

----------------------------------------------------------------------------
(* FinancialCalculator: the pure parts.  `inv` is a row of inventory       *)
(* joined with its brand's reputation_score, `channel` a sales_channels    *)
(* row.                                                                    *)

channel_multiplier(channel) ==
    IF channel.channel_type = "S" THEN Rat(12, 10)
    ELSE IF channel.channel_type = "A" THEN Rat(8, 10)
    ELSE Rat(10, 10)

brand_multiplier(inv) ==
    IF inv.reputation_score >= 8 THEN Rat(11, 10)
    ELSE IF inv.reputation_score >= 6 THEN Rat(10, 10)
    ELSE Rat(7, 10)

\* variant: food sells at 1.5 times the base rate
category_multiplier_food15(inv) ==
    CASE inv.category = "beverage" -> Rat(10, 10)
      [] inv.category = "daily_chemical" -> Rat(9, 10)
      [] inv.category = "appliance" -> Rat(6, 10)
      [] inv.category = "food" -> Rat(15, 10)
      [] inv.category = "other" -> Rat(8, 10)
      [] OTHER -> Rat(8, 10)

category_multiplier(inv) ==
    CASE inv.category = "beverage" -> Rat(10, 10)
      [] inv.category = "daily_chemical" -> Rat(9, 10)
      [] inv.category = "appliance" -> Rat(6, 10)
      [] inv.category = "food" -> Rat(11, 10)
      [] inv.category = "other" -> Rat(8, 10)
      [] OTHER -> Rat(8, 10)

\* months_until_expiry = days / 30, so `< 1` is days < 30, `< 3` is days < 90
expiry_multiplier(inv) ==
    IF inv.expiry_date # None
    THEN IF inv.expiry_date[1] < 30 THEN Rat(5, 10)
         ELSE IF inv.expiry_date[1] < 90 THEN Rat(8, 10)
         ELSE IF inv.expiry_date[1] < 180 THEN Rat(9, 10)
         ELSE Rat(10, 10)
    ELSE Rat(10, 10)

adjusted_rate(inv, channel) ==
    RatMul(RatMul(RatMul(RatMul(default_realization_rate,
                                channel_multiplier(channel)),
                         brand_multiplier(inv)),
                  category_multiplier(inv)),
           expiry_multiplier(inv))

\* variant: the lower clamp is missing
calculate_realization_rate_noFloor(inv, channel) ==
    PyMin(max_realization_rate, adjusted_rate(inv, channel))

calculate_realization_rate(inv, channel) ==
    PyMax(min_realization_rate,
          PyMin(max_realization_rate, adjusted_rate(inv, channel)))

\* variant: the overhead is charged at the logistics ratio
calculate_cost_breakdown_overheadAtLogistics(ad_cost, revenue, quantity, channel) ==
    [advertising_cost   |-> ad_cost,
     channel_commission |-> Times(revenue, Rat(OrZero(channel.commission_rate), 100)),
     storage_cost       |-> quantity * storage_cost_per_unit,
     logistics_cost     |-> Times(revenue, logistics_cost_ratio),
     operational_cost   |-> Times(revenue, logistics_cost_ratio)]

calculate_cost_breakdown(ad_cost, revenue, quantity, channel) ==
    [advertising_cost   |-> ad_cost,
     channel_commission |-> Times(revenue, Rat(OrZero(channel.commission_rate), 100)),
     storage_cost       |-> quantity * storage_cost_per_unit,
     logistics_cost     |-> Times(revenue, logistics_cost_ratio),
     operational_cost   |-> Times(revenue, operational_cost_ratio)]

\* sum(cost_breakdown.values())
SumCosts(cb) == cb.advertising_cost + cb.channel_commission + cb.storage_cost
                + cb.logistics_cost + cb.operational_cost

\* variant: a score of 8 is not yet high
risk_level_of_strict(risk_score) ==
    IF risk_score > 8 THEN "high_risk"
    ELSE IF risk_score >= 4 THEN "medium_risk"
    ELSE "low_risk"

risk_level_of(risk_score) ==
    IF risk_score >= 8 THEN "high_risk"
    ELSE IF risk_score >= 4 THEN "medium_risk"
    ELSE "low_risk"

risk_color_of(risk_score) ==
    IF risk_score >= 8 THEN "red"
    ELSE IF risk_score >= 4 THEN "yellow"
    ELSE "green"

\* each rule yields <<points, factors>>
rate_rule(realization_rate) ==
    IF Lt(realization_rate, Rat(6, 100))
    THEN <<3, <<"rate_too_low">> >>
    ELSE IF Lt(realization_rate, Rat(8, 100))
    THEN <<1, <<"rate_marginal">> >>
    ELSE <<0, <<>> >>

margin_rule(profit_margin) ==
    IF Lt(profit_margin, Rat(15, 100))
    THEN <<3, <<"margin_too_low">> >>
    ELSE IF Lt(profit_margin, Rat(25, 100))
    THEN <<1, <<"margin_marginal">> >>
    ELSE <<0, <<>> >>

brand_rule(inv) ==
    IF inv.reputation_score < 6
    THEN <<2, <<"brand_low_reputation">> >>
    ELSE <<0, <<>> >>

\* variant: the 30th day still counts as imminent
expiry_rule_inclusive(inv) ==
    IF inv.expiry_date # None
    THEN IF inv.expiry_date[1] <= 30
         THEN <<4, <<"expiry_imminent">> >>
         ELSE IF inv.expiry_date[1] < 90
         THEN <<2, <<"expiry_near">> >>
         ELSE <<0, <<>> >>
    ELSE <<0, <<>> >>

expiry_rule(inv) ==
    IF inv.expiry_date # None
    THEN IF inv.expiry_date[1] < 30
         THEN <<4, <<"expiry_imminent">> >>
         ELSE IF inv.expiry_date[1] < 90
         THEN <<2, <<"expiry_near">> >>
         ELSE <<0, <<>> >>
    ELSE <<0, <<>> >>

channel_rule(channel) ==
    IF channel.channel_type \notin {"S", "A"}
    THEN <<2, <<"channel_uncertified">> >>
    ELSE <<0, <<>> >>

assess_transaction_risk(inv, channel, realization_rate, profit_margin) ==
    LET r1 == rate_rule(realization_rate)
        r2 == margin_rule(profit_margin)
        r3 == brand_rule(inv)
        r4 == expiry_rule(inv)
        r5 == channel_rule(channel)
        risk_score == r1[1] + r2[1] + r3[1] + r4[1] + r5[1]
    IN  [risk_score   |-> risk_score,
         risk_level   |-> risk_level_of(risk_score),
         risk_color   |-> risk_color_of(risk_score),
         risk_factors |-> r1[2] \o r2[2] \o r3[2] \o r4[2] \o r5[2]]

\* variant: a high-risk transaction passes at a margin of exactly 0.30
assess_transaction_feasibility_lax(realization_rate, profit_margin, roi, risk_assessment) ==
    IF Lt(realization_rate, min_realization_rate) THEN FALSE
    ELSE IF Lt(profit_margin, min_profit_margin) THEN FALSE
    ELSE IF Lt(roi, Rat(5, 10)) THEN FALSE
    ELSE IF risk_assessment.risk_level = "high_risk"
    THEN Ge(profit_margin, Rat(3, 10)) /\ Gt(roi, Rat(1, 1))
    ELSE TRUE

assess_transaction_feasibility(realization_rate, profit_margin, roi, risk_assessment) ==
    IF Lt(realization_rate, min_realization_rate) THEN FALSE
    ELSE IF Lt(profit_margin, min_profit_margin) THEN FALSE
    ELSE IF Lt(roi, Rat(5, 10)) THEN FALSE
    ELSE IF risk_assessment.risk_level = "high_risk"
    THEN Gt(profit_margin, Rat(3, 10)) /\ Gt(roi, Rat(1, 1))
    ELSE TRUE

generate_recommendations(feasibility, realization_rate, profit_margin, risk_assessment) ==
    IF feasibility
    THEN <<"verdict_feasible">>
         \o (IF Lt(realization_rate, Rat(8, 100))
             THEN <<"warn_rate_low">> ELSE <<>>)
         \o (IF Lt(profit_margin, Rat(25, 100))
             THEN <<"warn_margin_modest">> ELSE <<>>)
         \o (IF risk_assessment.risk_level \in {"medium_risk", "high_risk"}
             THEN <<"warn_risk_present">> ELSE <<>>)
    ELSE <<"verdict_infeasible">>
         \o (IF Lt(realization_rate, min_realization_rate)
             THEN <<"tip_rate_below_minimum">> ELSE <<>>)
         \o (IF Lt(profit_margin, min_profit_margin)
             THEN <<"tip_margin_below_minimum">> ELSE <<>>)
         \o (IF risk_assessment.risk_level = "high_risk"
             THEN <<"alert_risk_high">> ELSE <<>>)

----------------------------------------------------------------------------
(* PricingCalculator.  The two search functions stand for the third-party  *)
(* price lookups ("in a real deployment this calls the platform API"); the *)
(* tables written into them are one possible answer of the sources, held   *)
(* here in price_source together with the other answers a source can give  *)
(* (a price, or None when the lookup fails).                               *)

search_pdd_price(product_name) == price_source[product_name].pdd

search_xianyu_price(product_name) == price_source[product_name].xianyu

get_market_price_range(product_name) ==
    LET pdd_price    == search_pdd_price(product_name)
        xianyu_price == search_xianyu_price(product_name)
    IN  [pdd_price    |-> pdd_price,
         xianyu_price |-> xianyu_price,
         recommended_price |->
             IF Truthy(xianyu_price) THEN Some(Times(xianyu_price[1], Rat(6, 10)))
             ELSE IF Truthy(pdd_price) THEN Some(Times(pdd_price[1], Rat(5, 10)))
             ELSE None]

Abs(x) == IF x < 0 THEN 0 - x ELSE x

Max2(a, b) == IF b > a THEN b ELSE a

assess_risk_level(inv, price_info) ==
    LET s1 == IF inv.reputation_score >= 8 THEN 1
              ELSE IF inv.reputation_score >= 6 THEN 2 ELSE 3
        s2 == IF inv.expiry_date # None
              THEN IF inv.expiry_date[1] >= 180 THEN 1
                   ELSE IF inv.expiry_date[1] >= 90 THEN 2 ELSE 5
              ELSE 0
        s3 == IF Truthy(price_info.pdd_price) /\ Truthy(price_info.xianyu_price)
              THEN LET price_diff_ratio ==
                           Rat(Abs(price_info.pdd_price[1] - price_info.xianyu_price[1]),
                               Max2(price_info.pdd_price[1], price_info.xianyu_price[1]))
                   IN  IF Lt(price_diff_ratio, Rat(2, 10)) THEN 1
                       ELSE IF Lt(price_diff_ratio, Rat(4, 10)) THEN 2 ELSE 3
              ELSE 3
        risk_score == s1 + s2 + s3
    IN  IF risk_score <= 3 THEN "low"
        ELSE IF risk_score <= 6 THEN "medium" ELSE "high"

\* variant: the fallback is half of the original value
market_value_of_half(inv, price_info) ==
    IF Truthy(price_info.xianyu_price) THEN price_info.xianyu_price[1]
    ELSE IF Truthy(price_info.pdd_price) THEN price_info.pdd_price[1]
    ELSE Times(inv.original_value, Rat(5, 10))

market_value_of(inv, price_info) ==
    IF Truthy(price_info.xianyu_price) THEN price_info.xianyu_price[1]
    ELSE IF Truthy(price_info.pdd_price) THEN price_info.pdd_price[1]
    ELSE Times(inv.original_value, Rat(3, 10))

\* the body of calculate_realization_value once the row has been read and the
\* prices have been looked up
valuation_from(inventory_id, inv, price_info) ==
    LET original_value == inv.original_value
        market_value   == market_value_of(inv, price_info)
        by_price       == Truthy(price_info.recommended_price)
        realization_value ==
            IF by_price THEN price_info.recommended_price[1] * inv.quantity
            ELSE Times(original_value, Rat(8, 100))
        realization_rate ==
            IF by_price THEN Rat(realization_value, original_value)
            ELSE Rat(8, 100)
    IN  [inventory_id           |-> inventory_id,
         product_name           |-> inv.product_name,
         original_value         |-> original_value,
         market_value           |-> market_value,
         realization_rate       |-> realization_rate,
         recommended_sale_price |->
             IF by_price THEN price_info.recommended_price[1]
             ELSE Times(market_value, Rat(6, 10)),
         expected_cash_return   |-> realization_value,
         profit_margin          |-> 0,
         risk_level             |-> assess_risk_level(inv, price_info),
         price_sources          |-> price_info]

\* variant: without a reference price the market value is 30% of the stored
\* market value when there is one
valuation_of_fromStored(inventory_id, inv) ==
    LET price_info     == get_market_price_range(inv.product_name)
        original_value == inv.original_value
        market_value   ==
            IF ~Truthy(price_info.recommended_price) /\ inv.market_value # None
            THEN Times(inv.market_value[1], Rat(3, 10))
            ELSE market_value_of(inv, price_info)
        by_price       == Truthy(price_info.recommended_price)
        realization_value ==
            IF by_price THEN price_info.recommended_price[1] * inv.quantity
            ELSE Times(original_value, Rat(8, 100))
        realization_rate ==
            IF by_price THEN Rat(realization_value, original_value)
            ELSE Rat(8, 100)
    IN  [inventory_id           |-> inventory_id,
         product_name           |-> inv.product_name,
         original_value         |-> original_value,
         market_value           |-> market_value,
         realization_rate       |-> realization_rate,
         recommended_sale_price |->
             IF by_price THEN price_info.recommended_price[1]
             ELSE Times(market_value, Rat(6, 10)),
         expected_cash_return   |-> realization_value,
         profit_margin          |-> 0,
         risk_level             |-> assess_risk_level(inv, price_info),
         price_sources          |-> price_info]

\* the body of calculate_realization_value once the row has been read
valuation_of(inventory_id, inv) ==
    valuation_from(inventory_id, inv, get_market_price_range(inv.product_name))

----------------------------------------------------------------------------
(* The tables *)

\* SELECT i.*, b.brand_name, b.reputation_score FROM inventory i JOIN brands b
HasInventoryRow(id) ==
    id \in DOMAIN inventory /\ inventory[id].brand_id \in DOMAIN brands

InventoryRow(id) ==
    [reputation_score |-> brands[inventory[id].brand_id].reputation_score]
        @@ inventory[id]

\* variant: the return on investment is the revenue over the total cost
transaction_amounts_grossRoi(inv, ad_resource, channel, proposed_sale_price) ==
    LET original_value == inv.original_value
        quantity       == inv.quantity
        ad_actual_cost == ad_resource.actual_cost
        by_price       == Truthy(proposed_sale_price)
        total_revenue  ==
            IF by_price THEN proposed_sale_price[1] * quantity
            ELSE Times(original_value, calculate_realization_rate(inv, channel))
        realization_rate ==
            IF by_price THEN Rat(total_revenue, original_value)
            ELSE calculate_realization_rate(inv, channel)
        cost_breakdown == calculate_cost_breakdown(ad_actual_cost, total_revenue,
                                                   quantity, channel)
        total_cost     == SumCosts(cost_breakdown)
        net_profit     == total_revenue - total_cost
        profit_margin  == IF total_revenue > 0 THEN Rat(net_profit, total_revenue)
                          ELSE Rat(0, 1)
        roi            == IF total_cost > 0 THEN Rat(total_revenue, total_cost)
                          ELSE Rat(0, 1)
        risk_assessment == assess_transaction_risk(inv, channel, realization_rate,
                                                   profit_margin)
        feasibility    == assess_transaction_feasibility(realization_rate, profit_margin,
                                                         roi, risk_assessment)
    IN  [total_revenue    |-> total_revenue,
         realization_rate |-> realization_rate,
         cost_breakdown   |-> cost_breakdown,
         total_cost       |-> total_cost,
         net_profit       |-> net_profit,
         profit_margin    |-> profit_margin,
         roi              |-> roi,
         risk_assessment  |-> risk_assessment,
         feasibility      |-> feasibility]

\* the amounts that calculate_transaction_profit computes, before any rounding
transaction_amounts(inv, ad_resource, channel, proposed_sale_price) ==
    LET original_value == inv.original_value
        quantity       == inv.quantity
        ad_actual_cost == ad_resource.actual_cost
        by_price       == Truthy(proposed_sale_price)
        total_revenue  ==
            IF by_price THEN proposed_sale_price[1] * quantity
            ELSE Times(original_value, calculate_realization_rate(inv, channel))
        realization_rate ==
            IF by_price THEN Rat(total_revenue, original_value)
            ELSE calculate_realization_rate(inv, channel)
        cost_breakdown == calculate_cost_breakdown(ad_actual_cost, total_revenue,
                                                   quantity, channel)
        total_cost     == SumCosts(cost_breakdown)
        net_profit     == total_revenue - total_cost
        profit_margin  == IF total_revenue > 0 THEN Rat(net_profit, total_revenue)
                          ELSE Rat(0, 1)
        roi            == IF total_cost > 0 THEN Rat(net_profit, total_cost)
                          ELSE Rat(0, 1)
        risk_assessment == assess_transaction_risk(inv, channel, realization_rate,
                                                   profit_margin)
        feasibility    == assess_transaction_feasibility(realization_rate, profit_margin,
                                                         roi, risk_assessment)
    IN  [total_revenue    |-> total_revenue,
         realization_rate |-> realization_rate,
         cost_breakdown   |-> cost_breakdown,
         total_cost       |-> total_cost,
         net_profit       |-> net_profit,
         profit_margin    |-> profit_margin,
         roi              |-> roi,
         risk_assessment  |-> risk_assessment,
         feasibility      |-> feasibility]

\* the dictionary calculate_transaction_profit returns: the amounts rounded
assessment_result(a, inv) ==
    [feasibility          |-> a.feasibility,
     total_revenue        |-> Round2(a.total_revenue),
     total_cost           |-> Round2(a.total_cost),
     net_profit           |-> Round2(a.net_profit),
     profit_margin        |-> Round4(a.profit_margin),
     return_on_investment |-> Round4(a.roi),
     realization_rate     |-> Round4(a.realization_rate),
     cost_breakdown       |-> [k \in DOMAIN a.cost_breakdown |->
                                   Round2(a.cost_breakdown[k])],
     risk_assessment      |-> a.risk_assessment,
     recommendations      |-> generate_recommendations(a.feasibility,
                                  a.realization_rate, a.profit_margin,
                                  a.risk_assessment),
     product_name         |-> inv.product_name]

\* the body of calculate_transaction_profit once the three rows have been
\* read: the amounts are computed once and the result is built from them
assessment_of(inv, ad_resource, channel, proposed_sale_price) ==
    IF Truthy(proposed_sale_price) /\ inv.original_value = 0
    THEN [exception |-> "ZeroDivisionError"]
    ELSE CHOOSE r \in {assessment_result(a, inv) :
                          a \in {transaction_amounts(inv, ad_resource, channel,
                                                     proposed_sale_price)}} : TRUE

----------------------------------------------------------------------------
(* Inputs *)

InvIds == {1, 2}

MediaIds == {1, 2}

ChannelIds == {1, 2}

ProductNames == {"cola"}

Categories == {"beverage", "daily_chemical", "appliance", "food", "other", "toys"}

ChannelTypes == {"S", "A", "B", "S(tuanzhang)", "A(pifashichang)"}

Reputations == {5, 6, 8, 9}

\* days from now to the expiry date, around each threshold the code tests
ExpiryDates == {None, Some(20), Some(29), Some(30), Some(89), Some(90),
                Some(179), Some(180)}

\* what the two sources can answer for a product: the pair written in the
\* source (35.9, 28.0), a pdd price below the xianyu price, one source only,
\* no source
PriceAnswers ==
    {[pdd |-> Some(35900), xianyu |-> Some(28000)],
     [pdd |-> Some(20000), xianyu |-> Some(28000)],
     [pdd |-> Some(35900), xianyu |-> None],
     [pdd |-> None,        xianyu |-> Some(28000)],
     [pdd |-> None,        xianyu |-> None]}

\* items that differ in what the realization rate depends on
RateItems ==
    [brand_id: {1}, product_name: ProductNames, category: Categories,
     quantity: {500}, original_value: {Yuan(1000000)}, market_value: {None},
     expiry_date: ExpiryDates, status: {Some("pending")}, updated_at: {0}]

\* items that differ in the amounts
MoneyItems ==
    [brand_id: {1}, product_name: ProductNames, category: {"beverage"},
     quantity: {-1, 0, 1, 50, 500},
     original_value: {Yuan(1000), Yuan(10000), Yuan(1000000)},
     market_value: {None}, expiry_date: {None}, status: {Some("pending")},
     updated_at: {0}]

RateChannels == [channel_type: ChannelTypes, commission_rate: {Some(5)}]

MoneyChannels == [channel_type: {"S"},
                  commission_rate: {None, Some(-5), Some(1), Some(5), Some(150)}]

RateMedia == [actual_cost: {Yuan(20000)}]

\* 60951 and 60952: the advertising cost that makes the net profit of the item
\* of 1,000,000 about half, and exactly half, of the total cost
MoneyMedia == [actual_cost: {Yuan(-100), 0, Yuan(1), Yuan(20000), Yuan(60951),
                             Yuan(60952)}]

\* proposed_sale_price: omitted, 0, or a unit price
ProposedPrices == {None, Some(0), Some(400), Some(Yuan(2)), Some(Yuan(200)), Some(Yuan(-5))}

\* the calls of calculate_transaction_profit: every proposed price on the
\* stored rows, and each way of naming a row that does not exist
AssessCalls ==
    {<<1, 1, 1, p>> : p \in ProposedPrices}
        \cup {<<2, 1, 1, None>>, <<1, 2, 1, None>>, <<1, 1, 2, None>>, <<2, 2, 2, None>>}

\* the bound of the clock
MaxTime == 1

\* the values CURRENT_TIMESTAMP can take; rows are created at time 0
Timestamps == 0..MaxTime

NoCall == [op |-> "none"]

NoResult == [none |-> TRUE]

----------------------------------------------------------------------------
(* The risk rules: InventoryManager.init_default_risk_rules and the table   *)
(* risk_rules.  Rule names and reasons are ASCII tags of the Chinese text.  *)

\* the four default rules, in the order of the list default_rules
default_rules ==
    << [rule_name |-> "no_beauty_cards", rule_type |-> "category",
        rule_config |-> [forbidden_categories |-> <<"beauty_card", "service_voucher", "coupon">>,
                         reason |-> "value_is_hollow"]],
       [rule_name |-> "no_offbrand_goods", rule_type |-> "brand",
        rule_config |-> [min_reputation_score |-> 6, reason |-> "leaders_will_not_push"]],
       [rule_name |-> "no_near_expiry_food", rule_type |-> "expiry",
        rule_config |-> [min_expiry_months |-> 3, reason |-> "shelf_life_under_3_months"]],
       [rule_name |-> "valuation_rule", rule_type |-> "value",
        rule_config |-> [reason |-> "keep_a_profit_margin"]] >>

\* the columns of risk_rules under a PRIMARY KEY or UNIQUE constraint
risk_rules_unique == {"id"}

\* INSERT OR IGNORE INTO risk_rules (rule_name, rule_type, rule_config): the
\* row takes the next AUTOINCREMENT id and the default is_active; it is
\* dropped only when it collides with a stored row on a unique column
insert_or_ignore(table, rule) ==
    LET row == [id |-> Len(table) + 1, rule_name |-> rule.rule_name,
                rule_type |-> rule.rule_type, rule_config |-> rule.rule_config,
                is_active |-> TRUE]
    IN  IF \E i \in DOMAIN table : \E c \in risk_rules_unique : table[i][c] = row[c]
        THEN table
        ELSE Append(table, row)

RECURSIVE insert_rules(_, _)
insert_rules(table, rules) ==
    IF rules = <<>> THEN table
    ELSE insert_rules(insert_or_ignore(table, Head(rules)), Tail(rules))

\* init_default_risk_rules(cursor): one INSERT OR IGNORE per default rule
init_default_risk_rules(table) == insert_rules(table, default_rules)

----------------------------------------------------------------------------
(* The engines over the tables *)

Init ==
    /\ \E it \in RateItems \cup MoneyItems, rep \in Reputations,
          ch \in RateChannels \cup MoneyChannels, md \in RateMedia \cup MoneyMedia,
          pa \in PriceAnswers :
          /\ \/ it \in RateItems /\ ch \in RateChannels /\ md \in RateMedia
                /\ pa.xianyu = None /\ pa.pdd = None
             \/ it \in MoneyItems /\ ch \in MoneyChannels /\ md \in MoneyMedia
                /\ rep = 9
          /\ inventory = (1 :> it)
          /\ brands = (1 :> [reputation_score |-> rep])
          /\ sales_channels = (1 :> ch)
          /\ media_resources = (1 :> md)
          /\ price_source = [p \in ProductNames |-> pa]
    /\ transactions = <<>>
    /\ risk_rules = init_default_risk_rules(<<>>)
    /\ call = NoCall
    /\ result = NoResult

\* variant: the UPDATE has no WHERE clause
Valuate_noWhere(inventory_id) ==
    /\ call = NoCall
    /\ call' = [op |-> "calculate_realization_value", inventory_id |-> inventory_id]
    /\ IF ~HasInventoryRow(inventory_id)
       THEN /\ result' = [error |-> "inventory_not_found"]
            /\ UNCHANGED db
       ELSE \E now \in Timestamps :
                LET v == valuation_of(inventory_id, InventoryRow(inventory_id))
                IN  /\ now >= inventory[inventory_id].updated_at
                    /\ result' = v
                    /\ inventory' = [id \in DOMAIN inventory |->
                                        [inventory[id] EXCEPT
                                            !.market_value = Some(v.market_value),
                                            !.updated_at = now]]
                    /\ UNCHANGED <<brands, media_resources, sales_channels,
                                   transactions, risk_rules, price_source>>

\* PricingCalculator.calculate_realization_value(inventory_id); calls are
\* synchronous, one is made when the previous result has been taken
Valuate(inventory_id) ==
    /\ call = NoCall
    /\ call' = [op |-> "calculate_realization_value", inventory_id |-> inventory_id]
    /\ IF ~HasInventoryRow(inventory_id)
       THEN /\ result' = [error |-> "inventory_not_found"]
            /\ UNCHANGED db
       ELSE \E now \in Timestamps :
                LET v == valuation_of(inventory_id, InventoryRow(inventory_id))
                IN  /\ now >= inventory[inventory_id].updated_at
                    /\ result' = v
                    /\ inventory' = [inventory EXCEPT
                                        ![inventory_id].market_value = Some(v.market_value),
                                        ![inventory_id].updated_at = now]
                    /\ UNCHANGED <<brands, media_resources, sales_channels,
                                   transactions, risk_rules, price_source>>

\* variant: the media row is looked up before the inventory row
AssessTransaction_mediaFirst(inventory_id, ad_resource_id, channel_id, proposed_sale_price) ==
    /\ call = NoCall
    /\ call' = [op |-> "calculate_transaction_profit", inventory_id |-> inventory_id,
                ad_resource_id |-> ad_resource_id, channel_id |-> channel_id,
                proposed_sale_price |-> proposed_sale_price]
    /\ result' =
           IF ad_resource_id \notin DOMAIN media_resources
           THEN [error |-> "ad_resource_not_found", feasibility |-> FALSE]
           ELSE IF ~HasInventoryRow(inventory_id)
           THEN [error |-> "inventory_not_found", feasibility |-> FALSE]
           ELSE IF channel_id \notin DOMAIN sales_channels
           THEN [error |-> "channel_not_found", feasibility |-> FALSE]
           ELSE assessment_of(InventoryRow(inventory_id), media_resources[ad_resource_id],
                              sales_channels[channel_id], proposed_sale_price)
    /\ UNCHANGED db

\* FinancialCalculator.calculate_transaction_profit(inventory_id, ad_resource_id,
\*                                                  channel_id, proposed_sale_price)
AssessTransaction(inventory_id, ad_resource_id, channel_id, proposed_sale_price) ==
    /\ call = NoCall
    /\ call' = [op |-> "calculate_transaction_profit", inventory_id |-> inventory_id,
                ad_resource_id |-> ad_resource_id, channel_id |-> channel_id,
                proposed_sale_price |-> proposed_sale_price]
    /\ result' =
           IF ~HasInventoryRow(inventory_id)
           THEN [error |-> "inventory_not_found", feasibility |-> FALSE]
           ELSE IF ad_resource_id \notin DOMAIN media_resources
           THEN [error |-> "ad_resource_not_found", feasibility |-> FALSE]
           ELSE IF channel_id \notin DOMAIN sales_channels
           THEN [error |-> "channel_not_found", feasibility |-> FALSE]
           ELSE assessment_of(InventoryRow(inventory_id), media_resources[ad_resource_id],
                              sales_channels[channel_id], proposed_sale_price)
    /\ UNCHANGED db

\* the caller takes the result
TakeResult ==
    /\ call # NoCall
    /\ call.op = "batch_calculate_prices" => result # NoResult
    /\ call' = NoCall
    /\ result' = NoResult
    /\ UNCHANGED db

Next ==
    \/ \E id \in InvIds : Valuate(id)
    \/ \E c \in AssessCalls : AssessTransaction(c[1], c[2], c[3], c[4])
    \/ TakeResult

Spec == Init /\ [][Next]_vars

----------------------------------------------------------------------------
(* The calculation methods of FinancialCalculator called on their own,     *)
(* with arguments from a grid.  They read and write no table.              *)

MaxRatePct == 10

MaxMarginStep == 8

MaxRoiStep == 6

\* realization rates 0.00, 0.01, ... in steps of one percent
RateInputs == {Rat(k, 100) : k \in 0..MaxRatePct}

\* profit margins -0.05, 0.00, 0.05, ... and the values next to each threshold
MarginInputs == {Rat(5 * k, 100) : k \in -1..MaxMarginStep}
                    \cup {Rat(14, 100), Rat(19, 100), Rat(24, 100), Rat(31, 100)}

\* returns on investment 0.00, 0.25, ... and the values next to each threshold
RoiInputs == {Rat(25 * k, 100) : k \in 0..MaxRoiStep}
                 \cup {Rat(49, 100), Rat(51, 100), Rat(99, 100), Rat(101, 100)}

RiskLevels == {"low_risk", "medium_risk", "high_risk"}

RiskRows == [reputation_score: Reputations, expiry_date: ExpiryDates]

RiskChannels == [channel_type: ChannelTypes]

CostChannels == [commission_rate: {None, Some(1), Some(5)}]

CostAdCosts == {0, Yuan(20000)}

CostRevenues == {0, 400, Yuan(100000)}

CostQuantities == {1, 500}

InitCalls ==
    /\ inventory = <<>>
    /\ brands = <<>>
    /\ media_resources = <<>>
    /\ sales_channels = <<>>
    /\ transactions = <<>>
    /\ risk_rules = init_default_risk_rules(<<>>)
    /\ price_source = [p \in ProductNames |-> [pdd |-> None, xianyu |-> None]]
    /\ call = NoCall
    /\ result = NoResult

CallAssessRisk ==
    /\ call = NoCall
    /\ \E inv \in RiskRows, channel \in RiskChannels,
          realization_rate \in RateInputs, profit_margin \in MarginInputs :
          /\ call' = [op |-> "assess_transaction_risk", inventory |-> inv,
                      channel |-> channel, realization_rate |-> realization_rate,
                      profit_margin |-> profit_margin]
          /\ result' = assess_transaction_risk(inv, channel, realization_rate,
                                               profit_margin)
    /\ UNCHANGED db

CallFeasibility ==
    /\ call = NoCall
    /\ \E realization_rate \in RateInputs, profit_margin \in MarginInputs,
          roi \in RoiInputs, risk_level \in RiskLevels :
          /\ call' = [op |-> "assess_transaction_feasibility",
                      realization_rate |-> realization_rate,
                      profit_margin |-> profit_margin, roi |-> roi,
                      risk_assessment |-> [risk_level |-> risk_level]]
          /\ result' = assess_transaction_feasibility(realization_rate, profit_margin,
                                                      roi, [risk_level |-> risk_level])
    /\ UNCHANGED db

CallCostBreakdown ==
    /\ call = NoCall
    /\ \E ad_cost \in CostAdCosts, revenue \in CostRevenues,
          quantity \in CostQuantities, channel \in CostChannels :
          /\ call' = [op |-> "calculate_cost_breakdown", ad_cost |-> ad_cost,
                      revenue |-> revenue, quantity |-> quantity, channel |-> channel]
          /\ result' = calculate_cost_breakdown(ad_cost, revenue, quantity, channel)
    /\ UNCHANGED db

\* rows and channels that differ in everything the realization rate reads
RealizationRows ==
    [reputation_score: Reputations, category: Categories, expiry_date: ExpiryDates]

CallRealizationRate ==
    /\ call = NoCall
    /\ \E inv \in RealizationRows, channel \in RiskChannels :
          /\ call' = [op |-> "calculate_realization_rate", inventory |-> inv,
                      channel |-> channel]
          /\ result' = calculate_realization_rate(inv, channel)
    /\ UNCHANGED db

CallRecommendations ==
    /\ call = NoCall
    /\ \E feasibility \in BOOLEAN, realization_rate \in RateInputs,
          profit_margin \in MarginInputs, risk_level \in RiskLevels :
          /\ call' = [op |-> "generate_recommendations", feasibility |-> feasibility,
                      realization_rate |-> realization_rate,
                      profit_margin |-> profit_margin,
                      risk_assessment |-> [risk_level |-> risk_level]]
          /\ result' = generate_recommendations(feasibility, realization_rate,
                                                profit_margin,
                                                [risk_level |-> risk_level])
    /\ UNCHANGED db

NextCalls ==
    \/ CallRealizationRate
    \/ CallAssessRisk
    \/ CallFeasibility
    \/ CallCostBreakdown
    \/ CallRecommendations
    \/ TakeResult

SpecCalls == InitCalls /\ [][NextCalls]_vars

----------------------------------------------------------------------------
(* FinancialCalculator.generate_profit_forecast.  A transactions row is    *)
(* [age_days, profit]: the whole days from transaction_date to now, which  *)
(* also stands for DATE(transaction_date), and the profit in mils.  The    *)
(* amounts of the forecast are mixed numbers [q, n, d] = q + n/d mils with *)
(* 0 <= n < d, so that nothing is lost before a round().                   *)

Mix(q, n, d) == [q |-> q + (n \div d), n |-> n % d, d |-> d]

MixAdd(x, y) == Mix(x.q + y.q, x.n * y.d + y.n * x.d, x.d * y.d)

\* x * b / c
MixScale(x, b, c) ==
    LET p == MulDivRem(x.q, b, c)
    IN  Mix(p[1], p[2] * x.d + b * x.n, c * x.d)

\* round(x, 2), in mils
MixRound2(x) == 10 * Nearest(x.q \div 10, (x.q % 10) * x.d + x.n, 10 * x.d)

\* WHERE transaction_date >= datetime('now', '-30 days')
HistoryRows == {i \in DOMAIN transactions : transactions[i].age_days <= 30}

\* GROUP BY DATE(transaction_date)
HistoryDates == {transactions[i].age_days : i \in HistoryRows}

RECURSIVE SumProfit(_)
SumProfit(rows) ==
    IF rows = {} THEN 0
    ELSE LET i == CHOOSE i \in rows : TRUE
         IN  transactions[i].profit + SumProfit(rows \ {i})

\* FROM inventory i JOIN brands b ON i.brand_id = b.id WHERE i.status = 'pending'
PendingIds == {id \in DOMAIN inventory : /\ inventory[id].brand_id \in DOMAIN brands
                                         /\ inventory[id].status = Some("pending")}

\* SUM(original_value), NULL over no rows
RECURSIVE SumOriginalValue(_)
SumOriginalValue(ids) ==
    IF ids = {} THEN 0
    ELSE LET id == CHOOSE id \in ids : TRUE
         IN  inventory[id].original_value + SumOriginalValue(ids \ {id})

pending_total_value == IF PendingIds = {} THEN None
                       ELSE Some(SumOriginalValue(PendingIds))

\* avg_daily_profit * 30 * (1 + 0.05 * month); the mean of the daily sums is
\* the sum of the window over the number of its dates
monthly_profit(month) ==
    IF HistoryDates # {}
    THEN LET p == MulDivRem(SumProfit(HistoryRows), 30 * (100 + 5 * month),
                            100 * Cardinality(HistoryDates))
         IN  Mix(p[1], p[2], 100 * Cardinality(HistoryDates))
    ELSE Mix(0, 0, 1)

\* int(avg_transactions_per_day * 30)
monthly_transactions ==
    IF HistoryDates # {}
    THEN (Cardinality(HistoryRows) * 30) \div Cardinality(HistoryDates)
    ELSE 0

\* potential_inventory_value * 0.3 / months
monthly_inventory_value(months) ==
    LET p == MulDivRem(OrZero(pending_total_value), 3, 10 * months)
    IN  Mix(p[1], p[2], 10 * months)

total_monthly_profit(month, months) ==
    MixAdd(monthly_profit(month), MixScale(monthly_inventory_value(months), 8, 100))

\* sum(d['predicted_profit'] for d in forecast_data) once `month` rows are in
RECURSIVE SumPredicted(_, _)
SumPredicted(month, months) ==
    IF month = 0 THEN 0
    ELSE MixRound2(total_monthly_profit(month, months)) + SumPredicted(month - 1, months)

\* round(sum(d['predicted_profit'] for d in forecast_data) + total_monthly_profit, 2)
cumulative_profit(month, months) ==
    LET t == total_monthly_profit(month, months)
    IN  MixRound2(Mix(t.q + SumPredicted(month - 1, months), t.n, t.d))

\* forecast_data once the loop has run for the months 1..month
RECURSIVE forecast_data(_, _)
forecast_data(month, months) ==
    IF month <= 0 THEN <<>>
    ELSE Append(forecast_data(month - 1, months),
                [month                  |-> month,
                 predicted_profit       |-> MixRound2(total_monthly_profit(month, months)),
                 predicted_transactions |-> monthly_transactions,
                 inventory_conversion   |-> MixRound2(monthly_inventory_value(months)),
                 cumulative_profit      |-> cumulative_profit(month, months)])

generate_profit_forecast(months) ==
    [forecast_period         |-> months,
     historical_avg_profit   |->
         IF HistoryDates # {}
         THEN LET p == MulDivRem(SumProfit(HistoryRows), 30, Cardinality(HistoryDates))
              IN  MixRound2(Mix(p[1], p[2], Cardinality(HistoryDates)))
         ELSE 0,
     pending_inventory_value |-> Round2(OrZero(pending_total_value)),
     monthly_forecast        |-> forecast_data(months, months),
     total_predicted_profit  |-> SumPredicted(months, months)]

----------------------------------------------------------------------------
(* The engines over a store of up to two items, with a transaction         *)
(* history: single valuations, batches, assessments and forecasts.         *)

MaxMonths == 3

\* the `months` argument of generate_profit_forecast
MonthsInputs == 0..MaxMonths

\* the second item of the store, when there is one
SecondItem ==
    [brand_id |-> 1, product_name |-> "cola", category |-> "food", quantity |-> 10,
     original_value |-> Yuan(2000), market_value |-> None, expiry_date |-> None,
     status |-> Some("pending"), updated_at |-> 0]

\* items that differ in what a valuation reads and writes; the market value is
\* not yet set, or is the one an earlier valuation or the item form stored
ValuationItems ==
    [brand_id: {1}, product_name: ProductNames, category: {"beverage"},
     quantity: {0, 500}, original_value: {0, Yuan(1000)},
     market_value: {None, Some(Yuan(5))}, expiry_date: {None},
     status: {Some("pending")}, updated_at: {0}]

\* items that differ in what the forecast reads
ForecastItems ==
    [brand_id: {1}, product_name: ProductNames, category: {"beverage"},
     quantity: {500}, original_value: {0, 15625, Yuan(1000)},
     market_value: {None}, expiry_date: {None},
     status: {Some("pending"), Some("sold")}, updated_at: {0}]

\* transaction histories: none; one day; two days, one of them with two
\* transactions and one with a loss; one transaction older than the window
Histories ==
    {<<>>,
     <<[age_days |-> 1, profit |-> 1746250]>>,
     <<[age_days |-> 1, profit |-> Yuan(100)], [age_days |-> 1, profit |-> Yuan(50)],
       [age_days |-> 3, profit |-> Yuan(-20)]>>,
     <<[age_days |-> 45, profit |-> Yuan(900)]>>}

\* the id lists given to batch_calculate_prices; id 3 is never stored
BatchInputs == {<<>>, <<1>>, <<3>>, <<1, 1>>, <<1, 2>>, <<2, 1>>, <<3, 1>>, <<1, 3, 2>>}

StoreIds == {1, 2, 3}

InitStore ==
    /\ \E it \in ValuationItems \cup ForecastItems, second \in BOOLEAN,
          pa \in PriceAnswers, h \in Histories :
          /\ \/ it \in ValuationItems /\ h = <<>>
             \/ it \in ForecastItems /\ pa.xianyu = None /\ pa.pdd = None
          /\ inventory = IF second THEN (1 :> it) @@ (2 :> SecondItem) ELSE (1 :> it)
          /\ price_source = [p \in ProductNames |-> pa]
          /\ transactions = h
          /\ risk_rules = init_default_risk_rules(<<>>)
    /\ brands = (1 :> [reputation_score |-> 9])
    /\ sales_channels = (1 :> [channel_type |-> "S", commission_rate |-> Some(5)])
    /\ media_resources = (1 :> [actual_cost |-> Yuan(1)])
    /\ call = NoCall
    /\ result = NoResult

\* FinancialCalculator.generate_profit_forecast(months)
Forecast(months) ==
    /\ call = NoCall
    /\ call' = [op |-> "generate_profit_forecast", months |-> months]
    /\ result' = generate_profit_forecast(months)
    /\ UNCHANGED db

\* PricingCalculator.batch_calculate_prices(inventory_ids): results = []
BatchStart(inventory_ids) ==
    /\ call = NoCall
    /\ call' = [op |-> "batch_calculate_prices", inventory_ids |-> inventory_ids,
                results |-> <<>>]
    /\ UNCHANGED <<db, result>>

\* one turn of the loop: calculate_realization_value on the next id, append
BatchStep ==
    /\ call.op = "batch_calculate_prices"
    /\ result = NoResult
    /\ Len(call.results) < Len(call.inventory_ids)
    /\ LET inventory_id == call.inventory_ids[Len(call.results) + 1]
       IN  IF ~HasInventoryRow(inventory_id)
           THEN /\ call' = [call EXCEPT !.results =
                                Append(@, [error |-> "inventory_not_found"])]
                /\ UNCHANGED db
           ELSE \E now \in Timestamps :
                    LET v == valuation_of(inventory_id, InventoryRow(inventory_id))
                    IN  /\ now >= inventory[inventory_id].updated_at
                        /\ call' = [call EXCEPT !.results = Append(@, v)]
                        /\ inventory' = [inventory EXCEPT
                                            ![inventory_id].market_value = Some(v.market_value),
                                            ![inventory_id].updated_at = now]
                        /\ UNCHANGED <<brands, media_resources, sales_channels,
                                       transactions, risk_rules, price_source>>
    /\ UNCHANGED result

\* variant: the loop is left at the first error entry
BatchReturn_atError ==
    /\ call.op = "batch_calculate_prices"
    /\ result = NoResult
    /\ \/ Len(call.results) = Len(call.inventory_ids)
       \/ /\ Len(call.results) > 0
          /\ "error" \in DOMAIN call.results[Len(call.results)]
    /\ result' = [results |-> call.results]
    /\ UNCHANGED <<db, call>>

\* return results
BatchReturn ==
    /\ call.op = "batch_calculate_prices"
    /\ result = NoResult
    /\ Len(call.results) = Len(call.inventory_ids)
    /\ result' = [results |-> call.results]
    /\ UNCHANGED <<db, call>>

NextStore ==
    \/ \E id \in StoreIds : Valuate(id)
    \/ \E c \in AssessCalls : AssessTransaction(c[1], c[2], c[3], c[4])
    \/ \E months \in MonthsInputs : Forecast(months)
    \/ \E ids \in BatchInputs : BatchStart(ids)
    \/ BatchStep
    \/ BatchReturn
    \/ TakeResult

SpecStore == InitStore /\ [][NextStore]_vars

----------------------------------------------------------------------------
(* Calls that run at the same time, each on a connection of its own.  A    *)
(* step is one SQL statement or one price lookup.  Here call is the tuple  *)
(* of the threads: the call each one makes, where it is, what it has read; *)
(* result is the tuple of what they have returned.                         *)

Threads == 1..4

\* what a call returns when nothing else runs: the three entry points
SerialResult(c) ==
    IF c.op = "calculate_realization_value"
    THEN IF ~HasInventoryRow(c.inventory_id) THEN [error |-> "inventory_not_found"]
         ELSE valuation_of(c.inventory_id, InventoryRow(c.inventory_id))
    ELSE IF c.op = "calculate_transaction_profit"
    THEN IF ~HasInventoryRow(c.inventory_id)
         THEN [error |-> "inventory_not_found", feasibility |-> FALSE]
         ELSE IF c.ad_resource_id \notin DOMAIN media_resources
         THEN [error |-> "ad_resource_not_found", feasibility |-> FALSE]
         ELSE IF c.channel_id \notin DOMAIN sales_channels
         THEN [error |-> "channel_not_found", feasibility |-> FALSE]
         ELSE assessment_of(InventoryRow(c.inventory_id),
                            media_resources[c.ad_resource_id],
                            sales_channels[c.channel_id], c.proposed_sale_price)
    ELSE generate_profit_forecast(c.months)

\* the threads about to make their calls: serial is what the call returns when
\* it is made on the tables as they are now, kept for comparison; the locals
\* are not yet assigned
ValuateThread(inventory_id) ==
    LET c == [op |-> "calculate_realization_value", inventory_id |-> inventory_id]
    IN  [op |-> c.op, inventory_id |-> inventory_id, pc |-> "start",
         serial |-> SerialResult(c), inventory |-> None, price_info |-> None,
         rowcount |-> -1]

AssessThread(inventory_id, ad_resource_id, channel_id, proposed_sale_price) ==
    LET c == [op |-> "calculate_transaction_profit", inventory_id |-> inventory_id,
              ad_resource_id |-> ad_resource_id, channel_id |-> channel_id,
              proposed_sale_price |-> proposed_sale_price]
    IN  [op |-> c.op, inventory_id |-> inventory_id,
         ad_resource_id |-> ad_resource_id, channel_id |-> channel_id,
         proposed_sale_price |-> proposed_sale_price, pc |-> "start",
         serial |-> SerialResult(c), inventory |-> None, ad_resource |-> None]

ForecastThread(months) ==
    LET c == [op |-> "generate_profit_forecast", months |-> months]
    IN  [op |-> c.op, months |-> months, pc |-> "start",
         serial |-> SerialResult(c), historical_df |-> None]

\* items of the first row: the market value not yet set, or an old one
ConcurrentItems ==
    [brand_id: {1}, product_name: ProductNames, category: {"beverage"},
     quantity: {500}, original_value: {Yuan(1000)},
     market_value: {None, Some(Yuan(5))}, expiry_date: {None},
     status: {Some("pending")}, updated_at: {0}]

\* the assessment made next to the valuations: of either item, or of an item
\* or a channel that is not stored
ConcurrentAssessCalls ==
    {<<1, 1, 1, None>>, <<2, 1, 1, None>>, <<1, 1, 1, Some(Yuan(2))>>,
     <<1, 1, 2, None>>}

InitConcurrent ==
    /\ brands = (1 :> [reputation_score |-> 9])
    /\ sales_channels = (1 :> [channel_type |-> "S", commission_rate |-> Some(5)])
    /\ media_resources = (1 :> [actual_cost |-> Yuan(1)])
    /\ transactions = <<[age_days |-> 1, profit |-> Yuan(100)]>>
    /\ risk_rules = init_default_risk_rules(<<>>)
    /\ \E it \in ConcurrentItems, second \in BOOLEAN, pa \in PriceAnswers :
          /\ inventory = IF second THEN (1 :> it) @@ (2 :> SecondItem) ELSE (1 :> it)
          /\ price_source = [p \in ProductNames |-> pa]
    /\ call = <<>>
    /\ result = <<>>

\* the callers make their calls: a valuation of each of the two ids, an
\* assessment and a forecast, all of them running from now on
Spawn ==
    /\ call = <<>>
    /\ \E a \in ConcurrentAssessCalls :
           call' = <<ValuateThread(1), ValuateThread(2),
                     AssessThread(a[1], a[2], a[3], a[4]), ForecastThread(2)>>
    /\ result' = [t \in Threads |-> NoResult]
    /\ UNCHANGED db

\* thread t assigns its local and moves to pc
Goes(t, pc, local, value) == call' = [call EXCEPT ![t].pc = pc, ![t][local] = value]

Returns(t, r) ==
    /\ call' = [call EXCEPT ![t].pc = "done"]
    /\ result' = [result EXCEPT ![t] = r]

At(t, op, pc) == t \in DOMAIN call /\ call[t].op = op /\ call[t].pc = pc

\* calculate_realization_value: the SELECT of the item joined with its brand
ValuateRead(t) ==
    /\ At(t, "calculate_realization_value", "start")
    /\ IF ~HasInventoryRow(call[t].inventory_id)
       THEN Returns(t, [error |-> "inventory_not_found"])
       ELSE /\ Goes(t, "read", "inventory", InventoryRow(call[t].inventory_id))
            /\ UNCHANGED result
    /\ UNCHANGED db

\* calculate_realization_value: get_market_price_range
ValuateLookup(t) ==
    /\ At(t, "calculate_realization_value", "read")
    /\ Goes(t, "priced", "price_info",
            get_market_price_range(call[t].inventory.product_name))
    /\ UNCHANGED <<db, result>>

\* variant: the statement is INSERT OR REPLACE, which stores a row of the
\* column defaults under an id that matches none
update_market_value_upsert(table, inventory_id, market_value, now) ==
    IF inventory_id \in DOMAIN table
    THEN [table EXCEPT ![inventory_id].market_value = Some(market_value),
                       ![inventory_id].updated_at = now]
    ELSE table @@ (inventory_id :> [SecondItem EXCEPT !.market_value = Some(market_value),
                                                      !.updated_at = now])

\* UPDATE inventory SET market_value = ?, updated_at = CURRENT_TIMESTAMP
\* WHERE id = ?: the table after the statement; no row is written when no row
\* has the id
update_market_value(table, inventory_id, market_value, now) ==
    IF inventory_id \in DOMAIN table
    THEN [table EXCEPT ![inventory_id].market_value = Some(market_value),
                       ![inventory_id].updated_at = now]
    ELSE table

\* cursor.rowcount after the UPDATE: the number of rows with the id
rowcount(table, inventory_id) == IF inventory_id \in DOMAIN table THEN 1 ELSE 0

\* variant: the UPDATE has no WHERE clause
ValuateWrite_noWhere(t) ==
    /\ At(t, "calculate_realization_value", "priced")
    /\ \E now \in Timestamps :
           LET v == valuation_from(call[t].inventory_id, call[t].inventory,
                                   call[t].price_info)
           IN  /\ \A id \in DOMAIN inventory : now >= inventory[id].updated_at
               /\ inventory' = [id \in DOMAIN inventory |->
                                   [inventory[id] EXCEPT
                                       !.market_value = Some(v.market_value),
                                       !.updated_at = now]]
               /\ call' = [call EXCEPT ![t].pc = "done",
                                       ![t].rowcount = Cardinality(DOMAIN inventory)]
               /\ result' = [result EXCEPT ![t] = v]
    /\ UNCHANGED <<brands, media_resources, sales_channels, transactions, risk_rules, price_source>>

\* calculate_realization_value: the computation, the UPDATE, the commit and the
\* return
ValuateWrite(t) ==
    /\ At(t, "calculate_realization_value", "priced")
    /\ \E now \in Timestamps :
           LET v == valuation_from(call[t].inventory_id, call[t].inventory,
                                   call[t].price_info)
           IN  /\ call[t].inventory_id \in DOMAIN inventory
                      => now >= inventory[call[t].inventory_id].updated_at
               /\ inventory' = update_market_value(inventory, call[t].inventory_id,
                                                   v.market_value, now)
               /\ call' = [call EXCEPT ![t].pc = "done",
                                       ![t].rowcount = rowcount(inventory,
                                                                call[t].inventory_id)]
               /\ result' = [result EXCEPT ![t] = v]
    /\ UNCHANGED <<brands, media_resources, sales_channels, transactions, risk_rules, price_source>>

\* calculate_transaction_profit: the SELECT of the item joined with its brand
AssessReadInventory(t) ==
    /\ At(t, "calculate_transaction_profit", "start")
    /\ IF ~HasInventoryRow(call[t].inventory_id)
       THEN Returns(t, [error |-> "inventory_not_found", feasibility |-> FALSE])
       ELSE /\ Goes(t, "inventory_read", "inventory",
                    InventoryRow(call[t].inventory_id))
            /\ UNCHANGED result
    /\ UNCHANGED db

\* calculate_transaction_profit: the SELECT of the media resource
AssessReadMedia(t) ==
    /\ At(t, "calculate_transaction_profit", "inventory_read")
    /\ IF call[t].ad_resource_id \notin DOMAIN media_resources
       THEN Returns(t, [error |-> "ad_resource_not_found", feasibility |-> FALSE])
       ELSE /\ Goes(t, "media_read", "ad_resource",
                    media_resources[call[t].ad_resource_id])
            /\ UNCHANGED result
    /\ UNCHANGED db

\* calculate_transaction_profit: the SELECT of the channel, the computation and
\* the return
AssessReadChannel(t) ==
    /\ At(t, "calculate_transaction_profit", "media_read")
    /\ IF call[t].channel_id \notin DOMAIN sales_channels
       THEN Returns(t, [error |-> "channel_not_found", feasibility |-> FALSE])
       ELSE Returns(t, assessment_of(call[t].inventory, call[t].ad_resource,
                                     sales_channels[call[t].channel_id],
                                     call[t].proposed_sale_price))
    /\ UNCHANGED db

\* generate_profit_forecast: the SELECT over transactions, a table that no
\* call of the two engines writes
ForecastReadHistory(t) ==
    /\ At(t, "generate_profit_forecast", "start")
    /\ Goes(t, "history_read", "historical_df", transactions)
    /\ UNCHANGED <<db, result>>

\* generate_profit_forecast: the SELECT over the pending inventory, the
\* computation and the return; the history it computes from is the one it
\* has read, which is still the table
ForecastReadPending(t) ==
    /\ At(t, "generate_profit_forecast", "history_read")
    /\ call[t].historical_df = transactions
    /\ Returns(t, generate_profit_forecast(call[t].months))
    /\ UNCHANGED db

NextConcurrent ==
    \/ Spawn
    \/ \E t \in Threads :
           \/ ValuateRead(t)
           \/ ValuateLookup(t)
           \/ ValuateWrite(t)
           \/ AssessReadInventory(t)
           \/ AssessReadMedia(t)
           \/ AssessReadChannel(t)
           \/ ForecastReadHistory(t)
           \/ ForecastReadPending(t)

SpecConcurrent == InitConcurrent /\ [][NextConcurrent]_vars

----------------------------------------------------------------------------
(* InventoryManager.update_inventory.  A keyword argument is a Python      *)
(* value: None, an int, a float (in mils) or a str.  The columns product_  *)
(* name, category, quantity and original_value are NOT NULL and hold plain *)
(* values; every other column holds an optional one.                       *)

PyNone == [type |-> "NoneType"]

PyInt(n) == [type |-> "int", int |-> n]

PyFloat(mils) == [type |-> "float", mils |-> mils]

PyStr(text) == [type |-> "str", text |-> text]

\* the integer literal a text is, if it is one
TextInt(text) == CASE text = "7" -> Some(7) [] OTHER -> None

\* the number (in mils) a text is the literal of, if it is one
TextFloat(text) ==
    CASE text = "7" -> Some(7000) [] text = "7.5" -> Some(7500) [] OTHER -> None

\* int(value): a float is truncated towards zero; None stands for ValueError
int(value) ==
    CASE value.type = "int" -> Some(value.int)
      [] value.type = "float" ->
             Some(IF value.mils >= 0 THEN value.mils \div 1000
                                     ELSE -((-value.mils) \div 1000))
      [] value.type = "str" -> TextInt(value.text)

\* float(value), in mils; None stands for ValueError
float(value) ==
    CASE value.type = "int" -> Some(Yuan(value.int))
      [] value.type = "float" -> Some(value.mils)
      [] value.type = "str" -> TextFloat(value.text)

\* str.strip()
strip(text) ==
    CASE text = "" -> "" [] text = "  " -> ""
      [] text = " sold " -> "sold"
      [] OTHER -> text

allowed_fields ==
    {"product_name", "category", "quantity", "original_value", "market_value",
     "expiry_date", "storage_location", "status",
     "jd_link", "tmall_link", "xianyu_link", "pdd_link"}

NumericFields == {"quantity", "original_value", "market_value"}

StrippedFields == {"product_name", "category", "status", "storage_location"}

NotNullColumns == {"product_name", "category", "quantity", "original_value"}

\* the number a numeric field's value converts to
converted(field, value) == IF field = "quantity" THEN int(value) ELSE float(value)

\* the loop's two `continue`s: a numeric field whose value does not convert or
\* converts to a negative number is left out of the UPDATE
skipped(field, value) ==
    /\ field \in NumericFields
    /\ value # PyNone
    /\ \/ converted(field, value) = None
       \/ converted(field, value)[1] < 0

\* the parameter bound for an accepted field, as an optional value
update_value(field, value) ==
    IF value = PyNone THEN None
    ELSE IF field \in NumericFields THEN converted(field, value)
    ELSE IF field \in StrippedFields
    THEN LET text == strip(value.text) IN IF text = "" THEN None ELSE Some(text)
    ELSE Some(value.text)

\* the fields of the call that make it into the UPDATE statement
update_fields(kwargs) ==
    {field \in DOMAIN kwargs \cap allowed_fields : ~skipped(field, kwargs[field])}

\* the row after UPDATE inventory SET ..., updated_at = CURRENT_TIMESTAMP
updated_row(row, kwargs, now) ==
    [column \in DOMAIN row |->
        IF column \in update_fields(kwargs)
        THEN IF column \in NotNullColumns
             THEN update_value(column, kwargs[column])[1]
             ELSE update_value(column, kwargs[column])
        ELSE IF column = "updated_at" THEN now
        ELSE row[column]]

\* NULL bound to a NOT NULL column: sqlite3.IntegrityError, caught, rolled back
IntegrityError(kwargs) ==
    \E field \in update_fields(kwargs) \cap NotNullColumns :
        update_value(field, kwargs[field]) = None

update_inventory(inventory_id, kwargs) ==
    IF inventory_id <= 0 THEN FALSE
    ELSE IF inventory_id \notin DOMAIN inventory THEN FALSE
    ELSE IF update_fields(kwargs) = {} THEN FALSE
    ELSE ~IntegrityError(kwargs)

\* get_inventory_by_id: the columns of the row as they are stored, or None
get_inventory_by_id(inventory_id) ==
    IF inventory_id \in DOMAIN inventory THEN Some(inventory[inventory_id]) ELSE None

\* the items the manager's calls are made on
ManagerItems ==
    [brand_id: {1}, product_name: ProductNames, category: {"beverage"},
     quantity: {100}, original_value: {Yuan(5000)},
     market_value: {None, Some(Yuan(4000))}, expiry_date: {None},
     storage_location: {None, Some("A")}, status: {Some("pending")},
     jd_link: {None}, updated_at: {0}]

OtherItem ==
    [brand_id |-> 1, product_name |-> "cola", category |-> "beverage",
     quantity |-> 50, original_value |-> Yuan(1000), market_value |-> None,
     expiry_date |-> None, storage_location |-> None,
     status |-> Some("pending"), jd_link |-> None, updated_at |-> 0]

\* calls with one keyword argument
OneField ==
    {f :> v : f \in {"quantity"},
              v \in {PyInt(-10), PyInt(0), PyInt(200), PyFloat(-500),
                     PyStr("invalid_number"), PyStr("7"), PyNone}}
    \cup {f :> v : f \in {"original_value", "market_value"},
                   v \in {PyFloat(Yuan(-1000)), PyFloat(0), PyFloat(Yuan(7500)),
                          PyStr("not_a_number"), PyNone}}
    \cup {f :> v : f \in {"status", "storage_location"},
                   v \in {PyStr("approved"), PyStr(" sold "), PyStr("  "), PyStr("")}}
    \cup {f :> v : f \in {"jd_link"}, v \in {PyStr("https://item.jd.com/789.html"), PyStr("")}}
    \cup {f :> v : f \in {"brand_id"}, v \in {PyInt(2)}}

\* calls that carry an invalid value next to valid fields, two invalid values,
\* or a field outside the allowed list next to a valid one
SeveralFields ==
    {("quantity" :> PyInt(-10)) @@ ("original_value" :> PyFloat(Yuan(-1000))),
     ("quantity" :> PyStr("invalid_number")) @@ ("original_value" :> PyStr("not_a_number")),
     ("quantity" :> PyInt(-10)) @@ ("status" :> PyStr("approved")),
     ("quantity" :> PyInt(200)) @@ ("market_value" :> PyFloat(Yuan(-1000))),
     ("original_value" :> PyStr("not_a_number")) @@ ("market_value" :> PyFloat(Yuan(6000))),
     ("quantity" :> PyNone) @@ ("status" :> PyStr("approved")),
     ("brand_id" :> PyInt(2)) @@ ("status" :> PyStr("approved")),
     ("quantity" :> PyInt(200)) @@ ("original_value" :> PyFloat(Yuan(7500)))
        @@ ("market_value" :> PyFloat(Yuan(6000))) @@ ("status" :> PyStr("approved"))
        @@ ("storage_location" :> PyStr("B"))}

KwargsInputs == OneField \cup SeveralFields

\* ids of calls: none, not stored, stored
ManagerIds == {-1, 0, 1, 3}

InitManager ==
    /\ brands = (1 :> [reputation_score |-> 9])
    /\ sales_channels = (1 :> [channel_type |-> "S", commission_rate |-> Some(5)])
    /\ media_resources = (1 :> [actual_cost |-> Yuan(1)])
    /\ transactions = <<>>
    /\ risk_rules = init_default_risk_rules(<<>>)
    /\ \E it \in ManagerItems : inventory = (1 :> it) @@ (2 :> OtherItem)
    /\ price_source = [p \in ProductNames |-> [pdd |-> None, xianyu |-> None]]
    /\ call = NoCall
    /\ result = NoResult

UpdateInventory ==
    /\ call = NoCall
    /\ \E inventory_id \in ManagerIds, kwargs \in KwargsInputs, now \in Timestamps :
           /\ inventory_id \in DOMAIN inventory => now >= inventory[inventory_id].updated_at
           /\ inventory_id \notin DOMAIN inventory => now = 0
           /\ call' = [op |-> "update_inventory", inventory_id |-> inventory_id,
                       kwargs |-> kwargs]
           /\ result' = update_inventory(inventory_id, kwargs)
           /\ inventory' =
                  IF update_inventory(inventory_id, kwargs)
                  THEN [inventory EXCEPT ![inventory_id] = updated_row(@, kwargs, now)]
                  ELSE inventory
    /\ UNCHANGED <<brands, media_resources, sales_channels, transactions, risk_rules, price_source>>

NextManager ==
    \/ UpdateInventory
    \/ TakeResult

SpecManager == InitManager /\ [][NextManager]_vars

----------------------------------------------------------------------------
(* InventoryManager.update_brand, update_media_resource and                *)
(* update_sales_channel.  In the rows of this part the nullable columns    *)
(* reputation_score, discount_rate and commission_rate are optional values *)
(* (rates in whole percent), the NOT NULL columns are plain.               *)

brand_allowed_fields ==
    {"brand_name", "contact_person", "contact_phone", "contact_email",
     "brand_type", "reputation_score"}

BrandStrippedFields ==
    {"brand_name", "contact_person", "contact_phone", "contact_email", "brand_type"}

\* variant: the range check of the score is missing
brand_skipped_noRange(field, value) ==
    /\ field = "reputation_score"
    /\ value # PyNone
    /\ int(value) = None

\* the `continue`s of the score: it does not convert, or is not within 1..10
brand_skipped(field, value) ==
    /\ field = "reputation_score"
    /\ value # PyNone
    /\ \/ int(value) = None
       \/ ~(1 <= int(value)[1] /\ int(value)[1] <= 10)

brand_update_value(field, value) ==
    IF value = PyNone THEN None
    ELSE IF field \in BrandStrippedFields
    THEN LET text == strip(value.text) IN IF text = "" THEN None ELSE Some(text)
    ELSE int(value)

brand_update_fields(kwargs) ==
    {field \in DOMAIN kwargs \cap brand_allowed_fields :
        ~brand_skipped(field, kwargs[field])}

\* NULL bound to brands.brand_name, which is NOT NULL
BrandIntegrityError(kwargs) ==
    /\ "brand_name" \in brand_update_fields(kwargs)
    /\ brand_update_value("brand_name", kwargs["brand_name"]) = None

update_brand(brand_id, kwargs) ==
    IF brand_id <= 0 THEN FALSE
    ELSE IF brand_id \notin DOMAIN brands THEN FALSE
    ELSE IF brand_update_fields(kwargs) = {} THEN FALSE
    ELSE ~BrandIntegrityError(kwargs)

\* the row after UPDATE brands SET ... WHERE id = ?
updated_brand(row, kwargs) ==
    [column \in DOMAIN row |->
        IF column \in brand_update_fields(kwargs)
        THEN IF column = "brand_name"
             THEN brand_update_value(column, kwargs[column])[1]
             ELSE brand_update_value(column, kwargs[column])
        ELSE row[column]]

media_allowed_fields ==
    {"media_name", "media_type", "media_form", "location", "market_price",
     "discount_rate", "actual_cost", "media_specs", "audience_info", "owner_name",
     "contact_person", "contact_phone", "contract_start", "contract_end", "status"}

channel_allowed_fields ==
    {"channel_name", "channel_type", "contact_person", "contact_phone",
     "commission_rate", "payment_terms"}

PercentColumns == {"discount_rate", "commission_rate"}

MoneyColumns == {"market_price", "actual_cost"}

MediaNotNull == {"media_name", "media_type", "location", "market_price", "actual_cost"}

ChannelNotNull == {"channel_name", "channel_type"}

\* the value as sqlite stores it when it is bound to the column unchanged: a
\* number in the unit of the column, a text as it is
bound_value(column, value) ==
    IF value = PyNone THEN None
    ELSE IF column \in PercentColumns
    THEN IF value.type = "int" THEN Some(value.int) ELSE Some(value.mils \div 1000)
    ELSE IF column \in MoneyColumns THEN float(value)
    ELSE Some(value.text)

\* the fields that make it into the UPDATE statement: the allowed ones
record_update_fields(allowed, kwargs) == DOMAIN kwargs \cap allowed

\* NULL bound to a NOT NULL column
RecordIntegrityError(allowed, not_null, kwargs) ==
    \E field \in record_update_fields(allowed, kwargs) \cap not_null :
        kwargs[field] = PyNone

update_media_resource(resource_id, kwargs) ==
    IF resource_id \notin DOMAIN media_resources THEN FALSE
    ELSE IF record_update_fields(media_allowed_fields, kwargs) = {} THEN FALSE
    ELSE ~RecordIntegrityError(media_allowed_fields, MediaNotNull, kwargs)

update_sales_channel(channel_id, kwargs) ==
    IF channel_id \notin DOMAIN sales_channels THEN FALSE
    ELSE IF record_update_fields(channel_allowed_fields, kwargs) = {} THEN FALSE
    ELSE ~RecordIntegrityError(channel_allowed_fields, ChannelNotNull, kwargs)

\* the row after the UPDATE of a media resource or a channel
updated_record(row, allowed, not_null, kwargs, now) ==
    [column \in DOMAIN row |->
        IF column \in record_update_fields(allowed, kwargs)
        THEN IF column \in not_null
             THEN bound_value(column, kwargs[column])[1]
             ELSE bound_value(column, kwargs[column])
        ELSE IF column = "updated_at" THEN now
        ELSE row[column]]

RecordBrands ==
    [brand_name: {"brand"}, contact_person: {Some("Zhang")},
     reputation_score: {Some(5)}]

RecordMedia ==
    [market_price: {Yuan(5000)}, discount_rate: {Some(80)},
     actual_cost: {Yuan(4000)}, updated_at: {0}]

RecordChannels ==
    [channel_type: {"S"}, commission_rate: {Some(5)},
     payment_terms: {Some("cash")}]

BrandKwargs ==
    {f :> v : f \in {"reputation_score"},
              v \in {PyInt(15), PyInt(0), PyInt(8), PyFloat(7500), PyFloat(500),
                     PyStr("high"), PyStr("7"), PyNone}}
    \cup {f :> v : f \in {"contact_person"}, v \in {PyStr("Li"), PyStr("")}}
    \cup {f :> v : f \in {"brand_name"}, v \in {PyStr("renamed"), PyStr("  ")}}
    \cup {f :> v : f \in {"id"}, v \in {PyInt(2)}}
    \cup {("reputation_score" :> PyInt(15)) @@ ("contact_person" :> PyStr("Li")),
          ("reputation_score" :> PyStr("high")) @@ ("brand_name" :> PyStr("renamed")),
          ("reputation_score" :> PyInt(8)) @@ ("contact_person" :> PyStr("Li")),
          ("reputation_score" :> PyInt(8)) @@ ("brand_name" :> PyStr("  "))}

MediaKwargs ==
    {f :> v : f \in {"discount_rate"},
              v \in {PyFloat(150000), PyFloat(90000), PyNone}}
    \cup {f :> v : f \in {"market_price"},
                   v \in {PyFloat(Yuan(-1000)), PyFloat(Yuan(6000)), PyNone}}
    \cup {f :> v : f \in {"id"}, v \in {PyInt(2)}}
    \cup {("market_price" :> PyFloat(Yuan(6000))) @@ ("discount_rate" :> PyFloat(90000)),
          ("market_price" :> PyFloat(Yuan(6000))) @@ ("discount_rate" :> PyFloat(150000))}

ChannelKwargs ==
    {f :> v : f \in {"commission_rate"},
              v \in {PyFloat(150000), PyFloat(-5000), PyFloat(10000), PyNone}}
    \cup {f :> v : f \in {"payment_terms"}, v \in {PyStr("monthly")}}
    \cup {f :> v : f \in {"channel_type"}, v \in {PyNone}}
    \cup {f :> v : f \in {"id"}, v \in {PyInt(2)}}
    \cup {("commission_rate" :> PyFloat(150000)) @@ ("payment_terms" :> PyStr("monthly"))}

\* ids of calls: none, stored, not stored
RecordIds == {0, 1, 2}

\* the calls: any of the keyword arguments on the stored id, valid ones on the
\* other ids
RecordCalls(inputs, valid) ==
    ({1} \X inputs) \cup ((RecordIds \ {1}) \X {valid})

InitRecords ==
    /\ \E b \in RecordBrands : brands = (1 :> b)
    /\ \E m \in RecordMedia : media_resources = (1 :> m)
    /\ \E c \in RecordChannels : sales_channels = (1 :> c)
    /\ transactions = <<>>
    /\ risk_rules = init_default_risk_rules(<<>>)
    /\ inventory = (1 :> OtherItem)
    /\ price_source = [p \in ProductNames |-> [pdd |-> None, xianyu |-> None]]
    /\ call = NoCall
    /\ result = NoResult

UpdateBrand ==
    /\ call = NoCall
    /\ \E c \in RecordCalls(BrandKwargs, "reputation_score" :> PyInt(8)) :
         LET brand_id == c[1]
             kwargs == c[2]
         IN
           /\ call' = [op |-> "update_brand", id |-> brand_id, kwargs |-> kwargs]
           /\ result' = update_brand(brand_id, kwargs)
           /\ brands' = IF update_brand(brand_id, kwargs)
                        THEN [brands EXCEPT ![brand_id] = updated_brand(@, kwargs)]
                        ELSE brands
    /\ UNCHANGED <<inventory, media_resources, sales_channels, transactions, risk_rules, price_source>>

UpdateMediaResource ==
    /\ call = NoCall
    /\ \E c \in RecordCalls(MediaKwargs, "discount_rate" :> PyFloat(90000)),
          now \in Timestamps :
         LET resource_id == c[1]
             kwargs == c[2]
         IN
           /\ resource_id \in DOMAIN media_resources
                 => now >= media_resources[resource_id].updated_at
           /\ resource_id \notin DOMAIN media_resources => now = 0
           /\ call' = [op |-> "update_media_resource", id |-> resource_id,
                       kwargs |-> kwargs]
           /\ result' = update_media_resource(resource_id, kwargs)
           /\ media_resources' =
                  IF update_media_resource(resource_id, kwargs)
                  THEN [media_resources EXCEPT
                           ![resource_id] = updated_record(@, media_allowed_fields,
                                                           MediaNotNull, kwargs, now)]
                  ELSE media_resources
    /\ UNCHANGED <<inventory, brands, sales_channels, transactions, risk_rules, price_source>>

UpdateSalesChannel ==
    /\ call = NoCall
    /\ \E c \in RecordCalls(ChannelKwargs, "commission_rate" :> PyFloat(10000)) :
         LET channel_id == c[1]
             kwargs == c[2]
         IN
           /\ call' = [op |-> "update_sales_channel", id |-> channel_id,
                       kwargs |-> kwargs]
           /\ result' = update_sales_channel(channel_id, kwargs)
           /\ sales_channels' =
                  IF update_sales_channel(channel_id, kwargs)
                  THEN [sales_channels EXCEPT
                           ![channel_id] = updated_record(@, channel_allowed_fields,
                                                          ChannelNotNull, kwargs, 0)]
                  ELSE sales_channels
    /\ UNCHANGED <<inventory, brands, media_resources, transactions, risk_rules, price_source>>

NextRecords ==
    \/ UpdateBrand
    \/ UpdateMediaResource
    \/ UpdateSalesChannel
    \/ TakeResult

SpecRecords == InitRecords /\ [][NextRecords]_vars

----------------------------------------------------------------------------
(* InventoryManager.delete_inventory and delete_brand.  The connections    *)
(* never switch foreign key enforcement on, so the only protection of a    *)
(* brand is the count that delete_brand makes itself.                      *)

delete_inventory(inventory_id) == inventory_id \in DOMAIN inventory

\* SELECT COUNT(*) FROM inventory WHERE brand_id = ?
inventory_count(brand_id) ==
    Cardinality({id \in DOMAIN inventory : inventory[id].brand_id = brand_id})

\* variant: the count of the brand's items is not looked at
delete_brand_uncounted(brand_id) == brand_id \in DOMAIN brands

delete_brand(brand_id) ==
    IF brand_id \notin DOMAIN brands THEN FALSE
    ELSE IF inventory_count(brand_id) > 0 THEN FALSE
    ELSE TRUE

\* DELETE FROM table WHERE id = ?
without(table, id) == [i \in DOMAIN table \ {id} |-> table[i]]

DeleteIds == 1..4

\* the brands 1 and 2 are stored; an item may also name a brand that is not
DeleteBrandIds == {1, 2, 9}

InitDelete ==
    /\ brands = [b \in {1, 2} |-> [brand_name |-> "brand", contact_person |-> None,
                                   reputation_score |-> Some(5)]]
    /\ \E of \in [1..3 -> DeleteBrandIds] :
           inventory = [id \in 1..3 |-> [OtherItem EXCEPT !.brand_id = of[id]]]
    /\ sales_channels = (1 :> [channel_type |-> "S", commission_rate |-> Some(5)])
    /\ media_resources = (1 :> [actual_cost |-> Yuan(1)])
    /\ transactions = <<>>
    /\ risk_rules = init_default_risk_rules(<<>>)
    /\ price_source = [p \in ProductNames |-> [pdd |-> None, xianyu |-> None]]
    /\ call = NoCall
    /\ result = NoResult

DeleteInventory ==
    /\ call = NoCall
    /\ \E inventory_id \in DeleteIds :
           /\ call' = [op |-> "delete_inventory", id |-> inventory_id]
           /\ result' = delete_inventory(inventory_id)
           /\ inventory' = IF delete_inventory(inventory_id)
                           THEN without(inventory, inventory_id)
                           ELSE inventory
    /\ UNCHANGED <<brands, media_resources, sales_channels, transactions, risk_rules, price_source>>

DeleteBrand ==
    /\ call = NoCall
    /\ \E brand_id \in DeleteBrandIds :
           /\ call' = [op |-> "delete_brand", id |-> brand_id]
           /\ result' = delete_brand(brand_id)
           /\ brands' = IF delete_brand(brand_id)
                        THEN without(brands, brand_id)
                        ELSE brands
    /\ UNCHANGED <<inventory, media_resources, sales_channels, transactions, risk_rules, price_source>>

NextDelete ==
    \/ DeleteInventory
    \/ DeleteBrand
    \/ TakeResult

SpecDelete == InitDelete /\ [][NextDelete]_vars

----------------------------------------------------------------------------
(* InventoryManager.__init__ on an existing database, get_active_risk_rules *)
(* and check_inventory_risk.  A violation f"{rule_name}: {reason}" is the   *)
(* pair of the two tags.                                                    *)

\* SELECT rule_name, rule_type, rule_config FROM risk_rules WHERE is_active = 1
get_active_risk_rules ==
    LET active == SelectSeq(risk_rules, LAMBDA row : row.is_active)
    IN  [i \in DOMAIN active |->
            [rule_name |-> active[i].rule_name, rule_type |-> active[i].rule_type,
             rule_config |-> active[i].rule_config]]

\* Python's "category in text" on the texts of the model: the pairs
\* <<text, category>> where the category occurs in the text
SubstringPairs ==
    {<<"beauty_card", "beauty_card">>, <<"spa_beauty_card", "beauty_card">>,
     <<"service_voucher", "service_voucher">>, <<"coupon", "coupon">>}

occurs_in(category, text) == <<text, category>> \in SubstringPairs

\* the violations one rule appends for the joined row
rule_violations(rule, row) ==
    LET rule_config == rule.rule_config
        violation == <<rule.rule_name, rule_config.reason>>
    IN  IF rule.rule_type = "category"
        THEN IF \E k \in DOMAIN rule_config.forbidden_categories :
                    \/ occurs_in(rule_config.forbidden_categories[k], row.category)
                    \/ occurs_in(rule_config.forbidden_categories[k], row.product_name)
             THEN <<violation>> ELSE <<>>
        ELSE IF rule.rule_type = "brand"
        THEN IF row.reputation_score < rule_config.min_reputation_score
             THEN <<violation>> ELSE <<>>
        ELSE IF rule.rule_type = "expiry"
        THEN IF row.expiry_date # None
                  /\ row.expiry_date[1] < 30 * rule_config.min_expiry_months
             THEN <<violation>> ELSE <<>>
        ELSE <<>>

RECURSIVE all_violations(_, _)
all_violations(rules, row) ==
    IF rules = <<>> THEN <<>>
    ELSE rule_violations(Head(rules), row) \o all_violations(Tail(rules), row)

check_inventory_risk(inventory_id) ==
    IF ~HasInventoryRow(inventory_id)
    THEN [passed |-> FALSE, violations |-> <<"inventory_not_found">>, suggestions |-> <<>>]
    ELSE LET violations == all_violations(get_active_risk_rules, InventoryRow(inventory_id))
         IN  [passed |-> Len(violations) = 0, violations |-> violations,
              suggestions |-> <<>>]

\* the number of times the application builds a manager on one database
MaxConstructions == 3

RuleCategories == {"beverage", "beauty_card"}

RuleProductNames == {"cola", "spa_beauty_card"}

RuleExpiryDates == {None, Some(20), Some(89), Some(90)}

RuleIds == {1, 2}

InitRules ==
    /\ \E rep \in {5, 6, 9} : brands = (1 :> [reputation_score |-> rep])
    /\ \E c \in RuleCategories, n \in RuleProductNames, e \in RuleExpiryDates :
           inventory = (1 :> [OtherItem EXCEPT !.brand_id = 1, !.category = c,
                                               !.product_name = n, !.expiry_date = e])
    /\ sales_channels = (1 :> [channel_type |-> "S", commission_rate |-> Some(5)])
    /\ media_resources = (1 :> [actual_cost |-> Yuan(1)])
    /\ transactions = <<>>
    /\ risk_rules = init_default_risk_rules(<<>>)
    /\ price_source = [p \in ProductNames |-> [pdd |-> None, xianyu |-> None]]
    /\ call = NoCall
    /\ result = NoResult

\* InventoryManager(db_path) on the database that is already there: every
\* CREATE TABLE IF NOT EXISTS finds its table, then the default rules are
\* inserted and the transaction is committed
Construct ==
    /\ call = NoCall
    /\ Len(risk_rules) < Len(default_rules) * MaxConstructions
    /\ call' = [op |-> "InventoryManager"]
    /\ risk_rules' = init_default_risk_rules(risk_rules)
    /\ result' = NoResult
    /\ UNCHANGED <<inventory, brands, media_resources, sales_channels, transactions,
                   price_source>>

CheckInventoryRisk ==
    /\ call = NoCall
    /\ \E inventory_id \in RuleIds :
           /\ call' = [op |-> "check_inventory_risk", inventory_id |-> inventory_id]
           /\ result' = check_inventory_risk(inventory_id)
    /\ UNCHANGED db

NextRules ==
    \/ Construct
    \/ CheckInventoryRisk
    \/ TakeResult

SpecRules == InitRules /\ [][NextRules]_vars

----------------------------------------------------------------------------
(* A valuation next to InventoryManager.delete_inventory, each on its own   *)
(* connection: the deletion is a SELECT and then the DELETE with its commit *)

DeleteThread(inventory_id) ==
    [op |-> "delete_inventory", inventory_id |-> inventory_id, pc |-> "start",
     found |-> None]

RaceThreads == 1..3

\* the ids the deletion is asked for: a stored item, the other one, none
RaceDeleteIds == {1, 2, 3}

InitRace ==
    /\ brands = (1 :> [reputation_score |-> 9])
    /\ sales_channels = (1 :> [channel_type |-> "S", commission_rate |-> Some(5)])
    /\ media_resources = (1 :> [actual_cost |-> Yuan(1)])
    /\ transactions = <<>>
    /\ risk_rules = init_default_risk_rules(<<>>)
    /\ \E it \in ConcurrentItems, pa \in PriceAnswers :
          /\ inventory = (1 :> it) @@ (2 :> SecondItem)
          /\ price_source = [p \in ProductNames |-> pa]
    /\ call = <<>>
    /\ result = <<>>

\* the callers make their calls: a valuation of each item and a deletion
SpawnRace ==
    /\ call = <<>>
    /\ \E inventory_id \in RaceDeleteIds :
           call' = <<ValuateThread(1), ValuateThread(2), DeleteThread(inventory_id)>>
    /\ result' = [t \in RaceThreads |-> NoResult]
    /\ UNCHANGED db

\* delete_inventory: SELECT id FROM inventory WHERE id = ?
DeleteSelect(t) ==
    /\ At(t, "delete_inventory", "start")
    /\ IF call[t].inventory_id \notin DOMAIN inventory
       THEN Returns(t, FALSE)
       ELSE /\ Goes(t, "selected", "found", Some(call[t].inventory_id))
            /\ UNCHANGED result
    /\ UNCHANGED db

\* delete_inventory: DELETE FROM inventory WHERE id = ?, the commit and the
\* return
DeleteCommit(t) ==
    /\ At(t, "delete_inventory", "selected")
    /\ inventory' = without(inventory, call[t].inventory_id)
    /\ Returns(t, TRUE)
    /\ UNCHANGED <<brands, media_resources, sales_channels, transactions, risk_rules,
                   price_source>>

NextRace ==
    \/ SpawnRace
    \/ \E t \in RaceThreads :
           \/ ValuateRead(t)
           \/ ValuateLookup(t)
           \/ ValuateWrite(t)
           \/ DeleteSelect(t)
           \/ DeleteCommit(t)

SpecRace == InitRace /\ [][NextRace]_vars

----------------------------------------------------------------------------
(* Properties.  The thresholds are written out as cross products of small  *)
(* integers, not through the comparison operators of the model.            *)

\* r >= a/b and r > a/b for a ratio r with small terms
AtLeast(r, a, b) == r.n * b >= a * r.d

Above(r, a, b) == r.n * b > a * r.d

Below(r, a, b) == r.n * b < a * r.d

IsValuation == call.op = "calculate_realization_value" /\ "error" \notin DOMAIN result

IsAssessment ==
    /\ call.op = "calculate_transaction_profit"
    /\ "error" \notin DOMAIN result
    /\ "exception" \notin DOMAIN result

\* the stored item a finished call was about
CalledItem == inventory[call.inventory_id]

\* C1: every successful result of calculate_realization_value and of
\* calculate_transaction_profit, for an item with quantity > 0 and original
\* value > 0 and a proposed price that is omitted or not negative, reports a
\* realization rate within [0.05, 0.15].
C1_RateWithinBounds ==
    /\ (IsValuation /\ CalledItem.quantity > 0 /\ CalledItem.original_value > 0)
           => /\ ~Lt(result.realization_rate, Rat(5, 100))
              /\ ~Lt(Rat(15, 100), result.realization_rate)
    /\ (IsAssessment /\ CalledItem.quantity > 0 /\ CalledItem.original_value > 0
           /\ (call.proposed_sale_price = None \/ call.proposed_sale_price[1] >= 0))
           => result.realization_rate \in 500..1500

\* C2: assess_transaction_feasibility returns true exactly when rate >= 0.05,
\* margin >= 0.20, ROI >= 0.50 and (the risk level is not high, or margin > 0.30
\* and ROI > 1.00); so it returns false whenever rate < 0.05 or margin < 0.20.
C2_FeasibilityRule ==
    call.op = "assess_transaction_feasibility" =>
        /\ result = TRUE <=>
              /\ AtLeast(call.realization_rate, 5, 100)
              /\ AtLeast(call.profit_margin, 20, 100)
              /\ AtLeast(call.roi, 50, 100)
              /\ \/ call.risk_assessment.risk_level # "high_risk"
                 \/ Above(call.profit_margin, 30, 100) /\ Above(call.roi, 100, 100)
        /\ (Below(call.realization_rate, 5, 100) \/ Below(call.profit_margin, 20, 100))
              => result = FALSE

\* a high-risk transaction that is accepted
C2_Witness ==
    /\ call.op = "assess_transaction_feasibility"
    /\ call.risk_assessment.risk_level = "high_risk"
    /\ result = TRUE

\* a rate of 0.03 is rejected although margin and ROI are high
C2_WitnessVeto ==
    /\ call.op = "assess_transaction_feasibility"
    /\ call.realization_rate = Rat(3, 100)
    /\ Above(call.profit_margin, 30, 100) /\ Above(call.roi, 100, 100)
    /\ result = FALSE

\* C3: in every result of assess_transaction_risk the level is high exactly when
\* the score is >= 8, medium exactly when it is in [4, 8), low exactly when < 4.
C3_RiskLevelBands ==
    call.op = "assess_transaction_risk" =>
        /\ result.risk_level = "high_risk" <=> result.risk_score >= 8
        /\ result.risk_level = "medium_risk" <=>
              (result.risk_score >= 4 /\ result.risk_score < 8)
        /\ result.risk_level = "low_risk" <=> result.risk_score < 4

\* a score of exactly 8, the lowest that is high
C3_Witness ==
    /\ call.op = "assess_transaction_risk"
    /\ result.risk_score = 8
    /\ result.risk_level = "high_risk"

\* the points and the factor each rule contributes, from the arguments of the call
C4_Rate == IF Below(call.realization_rate, 6, 100) THEN <<3, <<"rate_too_low">> >>
           ELSE IF Below(call.realization_rate, 8, 100) THEN <<1, <<"rate_marginal">> >>
           ELSE <<0, <<>> >>

C4_Margin == IF Below(call.profit_margin, 15, 100) THEN <<3, <<"margin_too_low">> >>
             ELSE IF Below(call.profit_margin, 25, 100) THEN <<1, <<"margin_marginal">> >>
             ELSE <<0, <<>> >>

C4_Brand == IF call.inventory.reputation_score < 6 THEN <<2, <<"brand_low_reputation">> >>
            ELSE <<0, <<>> >>

C4_Expiry == IF call.inventory.expiry_date = None THEN <<0, <<>> >>
             ELSE IF call.inventory.expiry_date[1] < 30 THEN <<4, <<"expiry_imminent">> >>
             ELSE IF call.inventory.expiry_date[1] < 90 THEN <<2, <<"expiry_near">> >>
             ELSE <<0, <<>> >>

C4_Channel == IF call.channel.channel_type = "S" \/ call.channel.channel_type = "A"
              THEN <<0, <<>> >>
              ELSE <<2, <<"channel_uncertified">> >>

\* C4: the risk score is the sum of the independently triggered rules (rate +3/+1,
\* margin +3/+1, brand +2, expiry +4/+2, channel +2) and the list of risk factors
\* has one entry per triggered rule, in the order rate, margin, brand, expiry,
\* channel.
C4_RiskScoreIsSumOfRules ==
    call.op = "assess_transaction_risk" =>
        /\ result.risk_score =
              C4_Rate[1] + C4_Margin[1] + C4_Brand[1] + C4_Expiry[1] + C4_Channel[1]
        /\ result.risk_factors =
              C4_Rate[2] \o C4_Margin[2] \o C4_Brand[2] \o C4_Expiry[2] \o C4_Channel[2]

\* every rule triggered at its higher weight
C4_Witness ==
    /\ call.op = "assess_transaction_risk"
    /\ result.risk_score = 14
    /\ Len(result.risk_factors) = 5

\* C5: in every assessment for non-negative media cost, revenue, quantity and
\* commission rate, each reported cost is >= 0 and the reported total cost is
\* the sum of the five reported costs.
C5_ReportedCostsSumToTotal ==
    (/\ IsAssessment
     /\ media_resources[call.ad_resource_id].actual_cost >= 0
     /\ result.total_revenue >= 0
     /\ CalledItem.quantity >= 0
     /\ OrZero(sales_channels[call.channel_id].commission_rate) \in 0..100)
        => /\ \A k \in DOMAIN result.cost_breakdown : result.cost_breakdown[k] >= 0
           /\ result.total_cost = SumCosts(result.cost_breakdown)

\* C6: calculate_cost_breakdown returns exactly five components: advertising cost
\* = media cost, commission = revenue x rate / 100 (0 when the channel stores no
\* rate), storage = quantity x 2, logistics = revenue x 2%, overhead = revenue x
\* 1%; revenue 100,000 at 5% with media cost 20,000 and quantity 500 gives
\* 5,000 / 1,000 / 2,000 / 1,000 and a total of 29,000.
C6_CostBreakdownComponents ==
    call.op = "calculate_cost_breakdown" =>
        /\ DOMAIN result = {"advertising_cost", "channel_commission", "storage_cost",
                            "logistics_cost", "operational_cost"}
        /\ result.advertising_cost = call.ad_cost
        /\ result.channel_commission =
              IF call.channel.commission_rate = None THEN 0
              ELSE (call.revenue * call.channel.commission_rate[1]) \div 100
        /\ result.storage_cost = call.quantity * 2000
        /\ result.logistics_cost = (call.revenue * 2) \div 100
        /\ result.operational_cost = call.revenue \div 100
        /\ (/\ call.revenue = 100000000 /\ call.ad_cost = 20000000
            /\ call.quantity = 500 /\ call.channel.commission_rate = <<5>>)
              => /\ result.channel_commission = 5000000
                 /\ result.storage_cost = 1000000
                 /\ result.logistics_cost = 2000000
                 /\ result.operational_cost = 1000000
                 /\ result.advertising_cost + result.channel_commission
                      + result.storage_cost + result.logistics_cost
                      + result.operational_cost = 29000000

\* the scenario of the claim has been computed
C6_Witness ==
    /\ call.op = "calculate_cost_breakdown"
    /\ call.revenue = 100000000 /\ call.ad_cost = 20000000
    /\ call.quantity = 500 /\ call.channel.commission_rate = <<5>>
    /\ result.channel_commission = 5000000

\* a channel without a stored commission rate has been charged
C6_WitnessNoRate ==
    /\ call.op = "calculate_cost_breakdown"
    /\ call.channel.commission_rate = None
    /\ call.revenue > 0
    /\ result.channel_commission = 0

\* C7: calculate_transaction_profit with a negative media cost, a negative
\* quantity, a negative proposed price or a commission rate outside 0..100
\* returns a validation error and no assessment.
C7_InvalidInputRejected ==
    (/\ call.op = "calculate_transaction_profit"
     /\ HasInventoryRow(call.inventory_id)
     /\ call.ad_resource_id \in DOMAIN media_resources
     /\ call.channel_id \in DOMAIN sales_channels
     /\ \/ media_resources[call.ad_resource_id].actual_cost < 0
        \/ CalledItem.quantity < 0
        \/ (call.proposed_sale_price # None /\ call.proposed_sale_price[1] < 0)
        \/ OrZero(sales_channels[call.channel_id].commission_rate) \notin 0..100)
        => /\ "error" \in DOMAIN result
           /\ "cost_breakdown" \notin DOMAIN result
           /\ result.feasibility = FALSE

\* the multipliers of the claim, in tenths
C8_ChannelTenths == IF sales_channels[call.channel_id].channel_type = "S" THEN 12
                    ELSE IF sales_channels[call.channel_id].channel_type = "A" THEN 8
                    ELSE 10

C8_BrandTenths ==
    IF brands[CalledItem.brand_id].reputation_score >= 8 THEN 11
    ELSE IF brands[CalledItem.brand_id].reputation_score >= 6 THEN 10
    ELSE 7

C8_CategoryTenths ==
    IF CalledItem.category = "beverage" THEN 10
    ELSE IF CalledItem.category = "daily_chemical" THEN 9
    ELSE IF CalledItem.category = "appliance" THEN 6
    ELSE IF CalledItem.category = "food" THEN 11
    ELSE 8

C8_ExpiryTenths ==
    IF CalledItem.expiry_date = None THEN 10
    ELSE IF CalledItem.expiry_date[1] < 30 THEN 5
    ELSE IF CalledItem.expiry_date[1] < 90 THEN 8
    ELSE IF CalledItem.expiry_date[1] < 180 THEN 9
    ELSE 10

\* 0.08 x the four multipliers, in millionths, clamped to [0.05, 0.15]
C8_RateMillionths ==
    LET composed == 8 * C8_ChannelTenths * C8_BrandTenths * C8_CategoryTenths
                      * C8_ExpiryTenths
    IN  IF composed < 50000 THEN 50000
        ELSE IF composed > 150000 THEN 150000 ELSE composed

\* the reported rate (4 decimals) and revenue (2 decimals) for that rate
C8_RateAndRevenueFollowFormula ==
    /\ result.realization_rate = Round4(Rat(C8_RateMillionths, 1000000))
    /\ result.total_revenue =
          Round2(Scale(CalledItem.original_value, C8_RateMillionths, 1000000))

C8_NoPriceGiven == IsAssessment /\ call.proposed_sale_price = None

\* the item of the two scenarios: 1,000,000 of beverage, reputation 9, top tier
C8_ScenarioItem ==
    /\ CalledItem.original_value = 1000000000
    /\ CalledItem.category = "beverage"
    /\ brands[CalledItem.brand_id].reputation_score = 9
    /\ sales_channels[call.channel_id].channel_type = "S"

\* C8 as claimed: without a proposed price the rate is clamp(0.08 x channel x
\* brand x category x expiry, 0.05, 0.15) and the revenue is original value x
\* rate; the scenario item without expiry gives 0.1056 and 105,600, and expiring
\* in 20 days gives 0.05 and 50,000.
C8_AsClaimed ==
    C8_NoPriceGiven =>
        /\ C8_RateAndRevenueFollowFormula
        /\ (C8_ScenarioItem /\ CalledItem.expiry_date = None)
              => result.realization_rate = 1056 /\ result.total_revenue = 105600000
        /\ (C8_ScenarioItem /\ CalledItem.expiry_date = <<20>>)
              => result.realization_rate = 500 /\ result.total_revenue = 50000000

\* C8 amended: as claimed, except that the scenario item expiring in 20 days
\* gives 0.0528 and 52,800 (0.0528 is above the floor, so it is not clamped).
C8_RateComposition ==
    C8_NoPriceGiven =>
        /\ C8_RateAndRevenueFollowFormula
        /\ (C8_ScenarioItem /\ CalledItem.expiry_date = None)
              => result.realization_rate = 1056 /\ result.total_revenue = 105600000
        /\ (C8_ScenarioItem /\ CalledItem.expiry_date = <<20>>)
              => result.realization_rate = 528 /\ result.total_revenue = 52800000

\* the scenario item expiring in 20 days has been assessed without a price
C8_Witness ==
    /\ C8_NoPriceGiven
    /\ C8_ScenarioItem
    /\ CalledItem.expiry_date = <<20>>
    /\ result.realization_rate = 528

\* an item whose composed rate is below the floor has been assessed
C8_WitnessClamped ==
    /\ C8_NoPriceGiven
    /\ 8 * C8_ChannelTenths * C8_BrandTenths * C8_CategoryTenths * C8_ExpiryTenths < 50000
    /\ result.realization_rate = 500

\* what the two sources answered for the item of a finished valuation
C9_Pdd == price_source[CalledItem.product_name].pdd

C9_Xianyu == price_source[CalledItem.product_name].xianyu

C10_AsClaimed ==
    IsValuation =>
        IF C9_Xianyu # None
        THEN result.recommended_sale_price = (C9_Xianyu[1] * 6) \div 10
        ELSE IF C9_Pdd # None
        THEN result.recommended_sale_price = (C9_Pdd[1] * 5) \div 10
        ELSE "recommended_sale_price" \notin DOMAIN result

\* C10 amended: ... and, when there is no reference price, 60% of the fallback
\* market value, which is 18% of the original value.
C10_RecommendedPrice ==
    IsValuation =>
        /\ "recommended_sale_price" \in DOMAIN result
        /\ result.recommended_sale_price =
              IF C9_Xianyu # None THEN (C9_Xianyu[1] * 6) \div 10
              ELSE IF C9_Pdd # None THEN (C9_Pdd[1] * 5) \div 10
              ELSE (CalledItem.original_value \div 100) * 18

\* an item without any reference price has been valuated
C10_Witness ==
    /\ IsValuation
    /\ C9_Xianyu = None /\ C9_Pdd = None
    /\ result.recommended_sale_price > 0

\* an item with only the higher-priced source has been valuated
C10_WitnessPddOnly ==
    /\ IsValuation
    /\ C9_Xianyu = None /\ C9_Pdd # None
    /\ result.recommended_sale_price = (C9_Pdd[1] * 5) \div 10

\* the recommended price derived from the reference prices of the valuated item
C11_Recommended ==
    IF C9_Xianyu # None /\ C9_Xianyu[1] # 0 THEN <<(C9_Xianyu[1] * 6) \div 10>>
    ELSE IF C9_Pdd # None /\ C9_Pdd[1] # 0 THEN <<(C9_Pdd[1] * 5) \div 10>>
    ELSE <<>>

\* 0.08 x channel x brand x category x expiry in millionths, clamped to
\* [0.05, 0.15], for a channel multiplier given in tenths
C11_ComposedMillionths(channel_tenths) ==
    LET composed == 8 * channel_tenths * C8_BrandTenths * C8_CategoryTenths
                      * C8_ExpiryTenths
    IN  IF composed < 50000 THEN 50000
        ELSE IF composed > 150000 THEN 150000 ELSE composed

\* C11: in a valuation with a recommended price derived from reference prices
\* the expected cash return is quantity x recommended price and the rate is that
\* return / original value; without a reference price the rate is the composed
\* rate (0.08 x channel, brand, category and expiry multipliers, clamped to
\* [0.05, 0.15], for one of the channel multipliers 0.8, 1.0, 1.2) and the
\* expected cash return is original value x that rate.  In both cases expected
\* cash return = original value x reported rate.
C11_RateAndReturn ==
    (IsValuation /\ CalledItem.original_value > 0) =>
        /\ IF C11_Recommended # <<>>
           THEN /\ result.expected_cash_return = CalledItem.quantity * C11_Recommended[1]
                /\ result.realization_rate.n = result.expected_cash_return
                /\ result.realization_rate.d = CalledItem.original_value
           ELSE \E channel_tenths \in {8, 10, 12} :
                    result.realization_rate.n * 1000000 =
                        C11_ComposedMillionths(channel_tenths) * result.realization_rate.d
        /\ result.expected_cash_return =
              Scale(CalledItem.original_value, result.realization_rate.n,
                    result.realization_rate.d)

\* the result of a finished call is nothing but an error value
C12_OnlyError(name) == result = [error |-> name]

C12_OnlyErrorInfeasible(name) == result = [error |-> name, feasibility |-> FALSE]

\* the error a finished call must report: the first missing row in the order
\* inventory, media, channel
C12_ErrorValues ==
    /\ (call.op = "calculate_realization_value"
           /\ call.inventory_id \notin DOMAIN inventory)
          => C12_OnlyError("inventory_not_found")
    /\ call.op = "calculate_transaction_profit" =>
          /\ call.inventory_id \notin DOMAIN inventory
                => C12_OnlyErrorInfeasible("inventory_not_found")
          /\ (call.inventory_id \in DOMAIN inventory
                 /\ call.ad_resource_id \notin DOMAIN media_resources)
                => C12_OnlyErrorInfeasible("ad_resource_not_found")
          /\ (call.inventory_id \in DOMAIN inventory
                 /\ call.ad_resource_id \in DOMAIN media_resources
                 /\ call.channel_id \notin DOMAIN sales_channels)
                => C12_OnlyErrorInfeasible("channel_not_found")

C12_WitnessValuate ==
    /\ call.op = "calculate_realization_value"
    /\ call.inventory_id \notin DOMAIN inventory
    /\ result = [error |-> "inventory_not_found"]

\* a call naming a stored item and media but no stored channel has returned
C12_WitnessChannel ==
    /\ call.op = "calculate_transaction_profit"
    /\ call.inventory_id \in DOMAIN inventory
    /\ call.ad_resource_id \in DOMAIN media_resources
    /\ "error" \in DOMAIN result
    /\ result.error = "channel_not_found"

\* what a successful calculate_realization_value step may change: the market
\* value and the update timestamp of the item it was called on
C13_ValuateFrame ==
    LET id == call'.inventory_id
    IN  /\ inventory'[id].market_value = <<result'.market_value>>
        /\ DOMAIN inventory' = DOMAIN inventory
        /\ \A other \in DOMAIN inventory \ {id} : inventory'[other] = inventory[other]
        /\ DOMAIN inventory'[id] = DOMAIN inventory[id]
        /\ \A field \in DOMAIN inventory[id] \ {"market_value", "updated_at"} :
               inventory'[id][field] = inventory[id][field]
        /\ UNCHANGED <<brands, media_resources, sales_channels, transactions>>

\* C13: a successful calculate_realization_value(id) leaves the stored market
\* value of item id equal to the market value it returns and changes nothing
\* else except that item's update timestamp: no other field of the item, no
\* other item, no brand, channel, media or transaction row;
\* calculate_transaction_profit and generate_profit_forecast change no table.
C13_Frame ==
    [][/\ (/\ call = NoCall
           /\ call'.op = "calculate_realization_value"
           /\ "error" \notin DOMAIN result') => C13_ValuateFrame
       /\ (/\ call = NoCall
           /\ call'.op \in {"calculate_transaction_profit", "generate_profit_forecast"})
             => UNCHANGED <<inventory, brands, media_resources, sales_channels,
                            transactions>>]_vars

\* an item with a stale market value has been valuated next to a second item
C13_Witness ==
    /\ IsValuation
    /\ 2 \in DOMAIN inventory /\ call.inventory_id = 1
    /\ inventory[1].market_value = <<result.market_value>>
    /\ inventory[1].market_value # <<Yuan(5)>>
    /\ inventory[1].updated_at > 0
    /\ inventory[2] = SecondItem

\* a forecast has been made over a store with history and pending items
C13_WitnessForecast ==
    /\ call.op = "generate_profit_forecast"
    /\ call.months > 0
    /\ transactions # <<>>
    /\ PendingIds # {}

\* in a batch, wherever the same id is given twice in a row and both calls have
\* been made, the two results are equal, and right after the second call the
\* stored market value is the one both calls returned
C14_RepeatedInBatch ==
    call.op = "batch_calculate_prices" =>
        \A i \in 1..(Len(call.results) - 1) :
            (/\ call.inventory_ids[i] = call.inventory_ids[i + 1]
             /\ "error" \notin DOMAIN call.results[i]) =>
                /\ call.results[i + 1] = call.results[i]
                /\ Len(call.results) = i + 1 =>
                       inventory[call.inventory_ids[i]].market_value =
                           <<call.results[i].market_value>>

\* C14: calculate_realization_value called twice in a row on the same item, with
\* nothing else changing the item and the price source answering the same,
\* returns two identical results (all fields, so market value, realization rate,
\* recommended price, expected cash return and risk level) and leaves the same
\* stored market value after the second call as after the first: the call made
\* in the state a successful call leaves behind returns what that call returned
\* and would store what is stored, and so do two consecutive turns of a batch.
C14_Idempotent ==
    /\ []C14_RepeatedInBatch
    /\ [][\A id \in StoreIds :
              (/\ call = NoCall
               /\ call' = [op |-> "calculate_realization_value", inventory_id |-> id]
               /\ "error" \notin DOMAIN result') =>
                  /\ HasInventoryRow(id)'
                  /\ valuation_of(id, InventoryRow(id))' = result'
                  /\ inventory'[id].market_value = <<result'.market_value>>]_vars

\* a batch has valuated the first item twice in a row, without reference prices
C14_Witness ==
    /\ call.op = "batch_calculate_prices"
    /\ call.inventory_ids = <<1, 1>>
    /\ Len(call.results) = 2
    /\ call.results[2] = call.results[1]
    /\ call.results[1].price_sources.recommended_price = None
    /\ call.results[1].market_value > 0
    /\ inventory[1].market_value = <<call.results[2].market_value>>

\* C15: for a stored item with quantity >= 0 and original value >= 0 and any
\* proposed price, calculate_realization_value and calculate_transaction_profit
\* end by returning a complete result or an error value: never by an exception
\* nobody handles (such as a division by zero in return / original value), and
\* never with a rate that is undefined or infinite.
C15_CompleteOrError ==
    (/\ call.op \in {"calculate_realization_value", "calculate_transaction_profit"}
     /\ call.inventory_id \in DOMAIN inventory
     /\ CalledItem.quantity >= 0
     /\ CalledItem.original_value >= 0) =>
        /\ "exception" \notin DOMAIN result
        /\ (call.op = "calculate_realization_value" /\ "error" \notin DOMAIN result)
              => result.realization_rate.d # 0

\* average daily profit x 30 x (1 + 0.05 m) + (pending value x 0.30 / N) x 0.08,
\* to the cent
C16_PredictedProfit(m, N) ==
    LET days    == Cardinality(HistoryDates)
        history == IF days = 0 THEN Mix(0, 0, 1)
                   ELSE LET p == MulDivRem(SumProfit(HistoryRows),
                                           30 * (100 + 5 * m), 100 * days)
                        IN  Mix(p[1], p[2], 100 * days)
        pending == SumOriginalValue(PendingIds)
        share   == LET p == MulDivRem(pending, 3, 10 * N) IN Mix(p[1], p[2], 10 * N)
    IN  MixRound2(MixAdd(history, MixScale(share, 8, 100)))

\* the sum of the predicted profits reported for the periods 1..m
RECURSIVE C16_SumReported(_, _)
C16_SumReported(forecast, m) ==
    IF m = 0 THEN 0
    ELSE forecast[m].predicted_profit + C16_SumReported(forecast, m - 1)

C16_IsForecast == call.op = "generate_profit_forecast"

\* N periods 1..N, each with the predicted profit of the formula
C16_PredictedFollowsFormula ==
    C16_IsForecast =>
        /\ DOMAIN result.monthly_forecast = 1..call.months
        /\ \A m \in 1..call.months :
              /\ result.monthly_forecast[m].month = m
              /\ result.monthly_forecast[m].predicted_profit =
                     C16_PredictedProfit(m, call.months)

\* the cumulative profit of period m is the sum of the predicted profits of 1..m
C16_CumulativeIsSum ==
    C16_IsForecast =>
        \A m \in 1..call.months :
            result.monthly_forecast[m].cumulative_profit =
                C16_SumReported(result.monthly_forecast, m)

\* the total is the cumulative profit of the last period
C16_TotalIsLastCumulative ==
    (C16_IsForecast /\ call.months >= 1) =>
        result.total_predicted_profit =
            result.monthly_forecast[call.months].cumulative_profit

\* without history and pending inventory every figure of every period is 0
C16_ZeroForecast ==
    (C16_IsForecast /\ HistoryRows = {} /\ PendingIds = {}) =>
        \A m \in 1..call.months :
            /\ result.monthly_forecast[m].predicted_profit = 0
            /\ result.monthly_forecast[m].predicted_transactions = 0
            /\ result.monthly_forecast[m].inventory_conversion = 0
            /\ result.monthly_forecast[m].cumulative_profit = 0

\* C16: generate_profit_forecast(N) returns the periods m = 1..N with predicted
\* profit(m) = average daily profit x 30 x (1 + 0.05 m) + (pending inventory
\* value x 0.30 / N) x 0.08; the cumulative profit of period m is the sum of the
\* predicted profits of periods 1..m; the total predicted profit is the
\* cumulative profit of period N; without transaction history and pending
\* inventory every period's figures are 0.
C16_Forecast ==
    /\ C16_PredictedFollowsFormula
    /\ C16_CumulativeIsSum
    /\ C16_TotalIsLastCumulative
    /\ C16_ZeroForecast

\* the entries a batch has produced so far: entry i is for the i-th id, an error
\* when that id is not stored and otherwise its valuation, whose market value is
\* the stored one; the returned list has one entry per id
C17_Entries ==
    call.op = "batch_calculate_prices" =>
        /\ Len(call.results) <= Len(call.inventory_ids)
        /\ \A i \in 1..Len(call.results) :
              IF call.inventory_ids[i] \in DOMAIN inventory
              THEN /\ "error" \notin DOMAIN call.results[i]
                   /\ call.results[i].inventory_id = call.inventory_ids[i]
                   /\ inventory[call.inventory_ids[i]].market_value =
                          <<call.results[i].market_value>>
              ELSE call.results[i] = [error |-> "inventory_not_found"]
        /\ result # NoResult =>
              /\ result.results = call.results
              /\ Len(result.results) = Len(call.inventory_ids)

\* a step of a running batch appends the entry of the next id and no other
C17_OneAtATime ==
    (call.op = "batch_calculate_prices" /\ call'.op = "batch_calculate_prices"
       /\ call' # call) =>
        /\ call'.inventory_ids = call.inventory_ids
        /\ Len(call'.results) = Len(call.results) + 1
        /\ SubSeq(call'.results, 1, Len(call.results)) = call.results

\* C17: batch_calculate_prices processes the given ids one at a time in input
\* order and returns a list with exactly one entry per id in the same order; an
\* id that does not exist gives an error entry at its position and does not
\* keep the later ids from being valuated and their market values from being
\* stored.
C17_BatchInOrder ==
    /\ []C17_Entries
    /\ [][C17_OneAtATime]_vars

\* a batch with an unknown id in the middle has returned, the last id valuated
C17_Witness ==
    /\ call.op = "batch_calculate_prices"
    /\ call.inventory_ids = <<1, 3, 2>>
    /\ 2 \in DOMAIN inventory
    /\ result # NoResult
    /\ Len(result.results) = 3
    /\ "error" \in DOMAIN result.results[2]
    /\ result.results[3].inventory_id = 2
    /\ inventory[2].market_value = <<result.results[3].market_value>>
    /\ inventory[2].updated_at > 0

\* what the recommendations after the verdict line are about
C18_Topics(recommendations) ==
    {topic \in {"rate", "margin", "risk"} :
        \E i \in 2..Len(recommendations) :
            \/ topic = "rate" /\ recommendations[i] \in
                   {"warn_rate_low", "tip_rate_below_minimum"}
            \/ topic = "margin" /\ recommendations[i] \in
                   {"warn_margin_modest", "tip_margin_below_minimum"}
            \/ topic = "risk" /\ recommendations[i] \in
                   {"warn_risk_present", "alert_risk_high"}}

\* C18: the recommendations of generate_recommendations after the verdict line
\* depend on the realization rate, the profit margin and the risk level only: the
\* call with the same rate, margin and risk assessment and the opposite
\* feasibility flag recommends on the same topics.
C18_RecommendationsIgnoreFlag ==
    call.op = "generate_recommendations" =>
        C18_Topics(result) =
            C18_Topics(generate_recommendations(~call.feasibility,
                                                call.realization_rate,
                                                call.profit_margin,
                                                call.risk_assessment))

\* the feasibility an assessment reports is the one computed from its rate,
\* margin, ROI and risk, whatever the recommendations say
C18_FlagIsTheVerdict ==
    IsAssessment =>
        /\ result.recommendations # <<>>
        /\ result.feasibility = (result.recommendations[1] = "verdict_feasible")

\* every call that has returned has returned what it returns when run alone,
\* and a valuated item holds the market value of its own valuation
C19_SameAsSerial ==
    \A t \in DOMAIN call :
        call[t].pc = "done" =>
            /\ result[t] = call[t].serial
            /\ (call[t].op = "calculate_realization_value"
                  /\ "error" \notin DOMAIN result[t])
                  => inventory[call[t].inventory_id].market_value =
                         <<call[t].serial.market_value>>

\* a step changes no table, except that the writing step of a valuation changes
\* the row of the item it was called on
C19_OwnItemOnly ==
    /\ UNCHANGED <<brands, media_resources, sales_channels, transactions>>
    /\ DOMAIN inventory' = DOMAIN inventory
    /\ \A id \in DOMAIN inventory :
           inventory'[id] # inventory[id] =>
               \E t \in DOMAIN call :
                   /\ call[t].op = "calculate_realization_value"
                   /\ call[t].inventory_id = id
                   /\ call[t].pc = "priced" /\ call'[t].pc = "done"

\* C19: however the steps (read the item, look up the prices, write the market
\* value back) of concurrent calculate_realization_value calls on distinct items
\* interleave with each other and with concurrent calculate_transaction_profit
\* and generate_profit_forecast calls, every call returns what it returns when
\* the calls run one after another and every item ends with the same stored
\* market value; no call reads or overwrites what a call on a different item
\* has written.
C19_Interleavings ==
    /\ []C19_SameAsSerial
    /\ [][C19_OwnItemOnly]_vars

\* all four calls have returned, both valuations with a result
C19_Witness ==
    /\ call # <<>>
    /\ \A t \in DOMAIN call : call[t].pc = "done"
    /\ "error" \notin DOMAIN result[1]
    /\ "error" \notin DOMAIN result[2]
    /\ inventory[1].market_value = <<result[1].market_value>>
    /\ inventory[2].market_value = <<result[2].market_value>>
    /\ "monthly_forecast" \in DOMAIN result[4]

\* the second valuation has written while the first one, which has read its
\* item, has not yet, and the assessment is between two of its reads
C19_WitnessInterleaved ==
    /\ call # <<>>
    /\ call[1].pc = "priced"
    /\ call[2].pc = "done" /\ "error" \notin DOMAIN result[2]
    /\ call[3].pc = "inventory_read"
    /\ call[4].pc = "history_read"

\* a Python value that is a negative number or not a number at all
C20_NegativeOrNonNumeric(value) ==
    CASE value.type = "int" -> value.int < 0
      [] value.type = "float" -> value.mils < 0
      [] value.type = "str" -> TextFloat(value.text) = None
      [] OTHER -> FALSE

\* the call carries such a value for one of the three numeric fields
C20_CarriesInvalid(kwargs) ==
    \E field \in DOMAIN kwargs \cap NumericFields :
        C20_NegativeOrNonNumeric(kwargs[field])

\* a call that carries such a value returns False and changes no record
C20_Rejected ==
    (call = NoCall /\ call'.op = "update_inventory"
        /\ C20_CarriesInvalid(call'.kwargs))
    => result' = FALSE /\ inventory' = inventory

\* no stored quantity, original value or market value is negative
C20_NoNegativeStored ==
    \A id \in DOMAIN inventory :
        /\ inventory[id].quantity >= 0
        /\ inventory[id].original_value >= 0
        /\ inventory[id].market_value # None => inventory[id].market_value[1] >= 0

\* C20: update_inventory called with a negative or non-numeric quantity,
\* original value or market value returns False and leaves the whole record
\* unchanged, also when the call carries other, valid fields; and so no
\* sequence of update_inventory calls stores a negative quantity, original
\* value or market value.
C20_InvalidNumbersRejected ==
    /\ [][C20_Rejected]_vars
    /\ []C20_NoNegativeStored

\* what does hold of the invalid values: none of them is ever written, and a
\* call that carries nothing else returns False
C20_InvalidNeverWritten ==
    (call = NoCall /\ call'.op = "update_inventory"
        /\ call'.inventory_id \in DOMAIN inventory)
    => /\ \A field \in DOMAIN call'.kwargs \cap NumericFields :
              skipped(field, call'.kwargs[field]) =>
                  inventory'[call'.inventory_id][field] =
                      inventory[call'.inventory_id][field]
       /\ (\A field \in DOMAIN call'.kwargs :
              field \in NumericFields /\ skipped(field, call'.kwargs[field]))
          => result' = FALSE /\ inventory' = inventory

C20_InvalidSkipped ==
    /\ [][C20_InvalidNeverWritten]_vars
    /\ []C20_NoNegativeStored

C21_TextFields == {"storage_location", "jd_link", "tmall_link", "xianyu_link", "pdd_link"}

\* the value is the number 0, or an empty or whitespace-only text
C21_Empty(field, value) ==
    \/ field = "market_value" /\ value # PyNone /\ float(value) = Some(0)
    \/ field \in C21_TextFields /\ value.type = "str" /\ strip(value.text) = ""

\* after a successful update that carried an empty value for a field, the read
\* of the item returns None for that field
C21_ReadsNone ==
    (call = NoCall /\ call'.op = "update_inventory" /\ result' = TRUE)
    => \A id \in ManagerIds, field \in DOMAIN call'.kwargs :
           (call'.inventory_id = id /\ C21_Empty(field, call'.kwargs[field]))
               => (get_inventory_by_id(id))'[1][field] = None

\* C21: update_inventory normalises empty values to absent: a market value of
\* 0 is stored as NULL, and an empty or whitespace-only storage_location or
\* link is stored as NULL, so a later read returns None for that field.
C21_EmptyBecomesNone == [][C21_ReadsNone]_vars

\* the value is a number of percent outside 0..100
C22_RateOutOfRange(value) ==
    value # PyNone /\ bound_value("discount_rate", value)[1] \notin 0..100

\* the call is one the claim says is rejected
C22_Invalid(c) ==
    \/ /\ c.op = "update_media_resource"
       /\ \/ "discount_rate" \in DOMAIN c.kwargs
               /\ C22_RateOutOfRange(c.kwargs["discount_rate"])
          \/ "market_price" \in DOMAIN c.kwargs
               /\ c.kwargs["market_price"] # PyNone
               /\ float(c.kwargs["market_price"])[1] < 0
    \/ /\ c.op = "update_sales_channel"
       /\ "commission_rate" \in DOMAIN c.kwargs
       /\ C22_RateOutOfRange(c.kwargs["commission_rate"])

C22_Rejected ==
    (call = NoCall /\ C22_Invalid(call'))
    => /\ result' = FALSE
       /\ UNCHANGED <<media_resources, sales_channels>>

\* every stored discount rate and commission rate is within 0..100
C22_RatesInRange ==
    /\ \A id \in DOMAIN media_resources :
           media_resources[id].discount_rate # None
               => media_resources[id].discount_rate[1] \in 0..100
    /\ \A id \in DOMAIN sales_channels :
           sales_channels[id].commission_rate # None
               => sales_channels[id].commission_rate[1] \in 0..100

\* C22: update_media_resource rejects a discount rate outside 0..100 and a
\* negative list price, update_sales_channel rejects a commission rate outside
\* 0..100: the call returns False and the stored record keeps its values, so
\* stored rates stay within 0..100 after any sequence of updates.
C22_OutOfRangeRejected ==
    /\ [][C22_Rejected]_vars
    /\ []C22_RatesInRange

\* the value is not an integer, or an integer outside 1..10
C23_InvalidScore(value) ==
    CASE value.type = "int" -> value.int \notin 1..10
      [] value.type = "float" -> value.mils % 1000 # 0 \/ value.mils \div 1000 \notin 1..10
      [] value.type = "str" -> TextInt(value.text) = None \/ TextInt(value.text)[1] \notin 1..10
      [] OTHER -> FALSE

C23_ScoreKept ==
    (call = NoCall /\ call'.op = "update_brand")
    => \A id \in DOMAIN brands :
           \* a changed score is within 1..10 (or absent)
           /\ (brands'[id].reputation_score # brands[id].reputation_score
                  /\ brands'[id].reputation_score # None)
              => brands'[id].reputation_score[1] \in 1..10
           /\ ("reputation_score" \in DOMAIN call'.kwargs
                  /\ C23_InvalidScore(call'.kwargs["reputation_score"]))
              => \* the score stays, with or without other fields
                 /\ brands'[id].reputation_score = brands[id].reputation_score
                 \* alone, the call is refused
                 /\ DOMAIN call'.kwargs = {"reputation_score"}
                        => result' = FALSE /\ brands' = brands

\* C23 as claimed: update_brand never changes a brand's reputation score to a value
\* outside 1..10: a call whose only field is an out-of-range or non-integer
\* score returns False and leaves the brand unchanged, and a call that mixes
\* such a score with valid fields leaves the stored score as it was.
C23_ReputationGuarded == [][C23_ScoreKept]_vars

\* C23 as it holds: the scores that are refused are those that int() does not
\* convert or converts to a number outside 1..10 (a fractional score is first
\* truncated towards zero, so 7.5 is stored as 7).  No stored score is ever
\* outside 1..10; a call whose only field is a refused score returns False and
\* leaves the brand unchanged; a call that mixes one with other fields leaves
\* the stored score as it was.
C23_SkippedScoreKept ==
    (call = NoCall /\ call'.op = "update_brand")
    => \A id \in DOMAIN brands :
           /\ brands'[id].reputation_score # None
                 => brands'[id].reputation_score[1] \in 1..10
           /\ ("reputation_score" \in DOMAIN call'.kwargs
                  /\ brand_skipped("reputation_score", call'.kwargs["reputation_score"]))
              => /\ brands'[id].reputation_score = brands[id].reputation_score
                 /\ DOMAIN call'.kwargs = {"reputation_score"}
                        => result' = FALSE /\ brands' = brands

\* C23 amended: as claimed, with "non-integer" read as "not converted by
\* int()": a fractional score within range is truncated and stored.
C23_SkippedScores == [][C23_SkippedScoreKept]_vars

\* a refused score came with a new contact person: the contact person is
\* stored, the score is the old one
C23_Witness ==
    /\ call # NoCall /\ call.op = "update_brand" /\ call.id = 1
    /\ call.kwargs = ("reputation_score" :> PyInt(15)) @@ ("contact_person" :> PyStr("Li"))
    /\ result = TRUE
    /\ brands[1].contact_person = Some("Li")
    /\ brands[1].reputation_score = Some(5)

\* a refused score came alone
C23_WitnessAlone ==
    /\ call # NoCall /\ call.op = "update_brand" /\ call.id = 1
    /\ call.kwargs = ("reputation_score" :> PyInt(15))
    /\ result = FALSE
    /\ brands[1].reputation_score = Some(8)

\* a successful delete_inventory removes the item it names and nothing else;
\* a failed one removes nothing
C24_DeleteInventory ==
    (call = NoCall /\ call'.op = "delete_inventory")
    => /\ UNCHANGED brands
       /\ \A id \in DeleteIds :
              call'.id = id =>
                  IF result'
                  THEN /\ id \in DOMAIN inventory
                       /\ (get_inventory_by_id(id))' = None
                       /\ DOMAIN inventory' = DOMAIN inventory \ {id}
                       /\ \A other \in DOMAIN inventory' :
                              inventory'[other] = inventory[other]
                  ELSE UNCHANGED inventory

\* delete_brand succeeds exactly for a stored brand that no item names, and
\* then removes that brand only; otherwise nothing is deleted
C24_DeleteBrand ==
    (call = NoCall /\ call'.op = "delete_brand")
    => /\ UNCHANGED inventory
       /\ \A b \in DeleteBrandIds :
              call'.id = b =>
                  /\ result' = (b \in DOMAIN brands
                                  /\ \A id \in DOMAIN inventory :
                                         inventory[id].brand_id # b)
                  /\ IF result'
                     THEN /\ DOMAIN brands' = DOMAIN brands \ {b}
                          /\ \A other \in DOMAIN brands' : brands'[other] = brands[other]
                     ELSE UNCHANGED brands

\* an item that is kept and named a stored brand still names a stored brand
C24_ReferencesKept ==
    \A id \in DOMAIN inventory' :
        (id \in DOMAIN inventory /\ inventory[id].brand_id \in DOMAIN brands)
            => inventory'[id].brand_id \in DOMAIN brands'

\* C24: a successful delete_inventory(id) removes exactly that item (the read
\* of id then returns None, the other items are unchanged); delete_brand
\* succeeds only for a brand that no item references and otherwise returns
\* False and deletes nothing; so after any sequence of the two, every item
\* that is left and referenced a stored brand still references a stored brand,
\* and a brand can be deleted once its last item is deleted.
C24_Deletes ==
    /\ [][C24_DeleteInventory]_vars
    /\ [][C24_DeleteBrand]_vars
    /\ [][C24_ReferencesKept]_vars

\* brand 1 has been deleted after the items that named it, while an item of
\* brand 2 is left
C24_Witness ==
    /\ call # NoCall /\ call.op = "delete_brand" /\ call.id = 1 /\ result = TRUE
    /\ 1 \notin DOMAIN brands
    /\ DOMAIN inventory = {3} /\ inventory[3].brand_id = 2
    /\ 2 \in DOMAIN brands

\* delete_brand has been refused for a brand that an item names
C24_WitnessRefused ==
    /\ call # NoCall /\ call.op = "delete_brand" /\ call.id = 2 /\ result = FALSE
    /\ DOMAIN inventory = {3} /\ inventory[3].brand_id = 2
    /\ 1 \notin DOMAIN brands

\* the column of the row holds the supplied value (a number as converted by
\* int() or float(), a text stripped, an empty text or None as NULL)
C25_Holds(row, field, value) ==
    /\ update_value(field, value) # None \/ field \notin NotNullColumns
    /\ row[field] = IF field \in NotNullColumns THEN update_value(field, value)[1]
                    ELSE update_value(field, value)

\* what a call does to the records, given the keyword arguments that count
C25_Effect(id, kwargs) ==
    IF result'
    THEN /\ id \in DOMAIN inventory
         /\ DOMAIN inventory' = DOMAIN inventory
         /\ \A field \in DOMAIN inventory[id] \ {"updated_at"} :
                IF field \in DOMAIN kwargs \cap allowed_fields
                THEN C25_Holds(inventory'[id], field, kwargs[field])
                ELSE inventory'[id][field] = inventory[id][field]
         /\ \A other \in DOMAIN inventory \ {id} : inventory'[other] = inventory[other]
    ELSE UNCHANGED inventory

C25_Update ==
    (call = NoCall /\ call'.op = "update_inventory")
    => /\ UNCHANGED <<brands, media_resources, sales_channels, transactions>>
       /\ \A id \in ManagerIds :
              call'.inventory_id = id =>
                  /\ C25_Effect(id, call'.kwargs)
                  /\ (id <= 0 \/ id \notin DOMAIN inventory) => result' = FALSE

\* C25: a successful update_inventory(id, fields) sets exactly the supplied
\* allowed fields of item id to the supplied values and leaves every field not
\* supplied, and every other item, unchanged (the modification time apart);
\* field names outside the allowed list are ignored; on an id that is not
\* stored, or is <= 0, the call returns False and changes no record.
C25_ExactlyTheSuppliedFields == [][C25_Update]_vars

\* the same for the calls that carry no negative or non-numeric number
C25_UpdateOfValid ==
    (call = NoCall /\ call'.op = "update_inventory"
        /\ \A field \in DOMAIN call'.kwargs : ~skipped(field, call'.kwargs[field]))
    => C25_Update

C25_ValidCalls == [][C25_UpdateOfValid]_vars

\* the channel types stored for the top tier and for the wholesale tier
C26_TopTier == {"S", "S(tuanzhang)"}

C26_Wholesale == {"A", "A(pifashichang)"}

\* the multiplier the claim gives the called channel, in tenths
C26_ChannelTenths ==
    IF sales_channels[call.channel_id].channel_type \in C26_TopTier THEN 12
    ELSE IF sales_channels[call.channel_id].channel_type \in C26_Wholesale THEN 8
    ELSE 10

\* C26: every channel stored as top-tier or wholesale is treated as such: for
\* the top-tier channel types, the long form that the add-channel form stores
\* and the short one, the channel multiplier of the realization rate is 1.2,
\* for the wholesale ones it is 0.8, and in neither case are channel risk
\* points added.
C26_TiersRecognised ==
    (/\ C8_NoPriceGiven
     /\ sales_channels[call.channel_id].channel_type \in C26_TopTier \cup C26_Wholesale)
        => /\ result.realization_rate =
                 Round4(Rat(C11_ComposedMillionths(C26_ChannelTenths), 1000000))
           /\ \A i \in DOMAIN result.risk_assessment.risk_factors :
                  result.risk_assessment.risk_factors[i] # "channel_uncertified"

\* the same for the short forms alone
C26_ShortFormsRecognised ==
    (/\ C8_NoPriceGiven
     /\ sales_channels[call.channel_id].channel_type \in {"S", "A"})
        => /\ result.realization_rate =
                 Round4(Rat(C11_ComposedMillionths(C26_ChannelTenths), 1000000))
           /\ \A i \in DOMAIN result.risk_assessment.risk_factors :
                  result.risk_assessment.risk_factors[i] # "channel_uncertified"

C27_Has(sequence, tag) == \E i \in DOMAIN sequence : sequence[i] = tag

\* the unrounded amounts of the assessment that the call has returned
C27_Amounts ==
    transaction_amounts(InventoryRow(call.inventory_id),
                        media_resources[call.ad_resource_id],
                        sales_channels[call.channel_id], call.proposed_sale_price)

\* C27: in every assessment with feasibility true, total cost > 0, net profit
\* > 0 and profit margin >= 1/3 (ROI >= 0.5 is required, and ROI is 0 when the
\* total cost is 0), the reported margin being that margin rounded to four
\* decimals; so a feasible assessment carries neither profit-margin risk
\* points nor the warning of a margin below 25%, and a transaction whose total
\* cost is 0 is never feasible.
C27_FeasibleIsProfitable ==
    IsAssessment =>
        /\ result.feasibility =>
              /\ C27_Amounts.total_cost > 0
              /\ C27_Amounts.net_profit > 0
              /\ ~FracLess(C27_Amounts.profit_margin.n, C27_Amounts.profit_margin.d, 1, 3)
              /\ result.total_cost >= 0
              /\ result.net_profit >= 0
              /\ result.profit_margin >= 3333
              /\ ~C27_Has(result.risk_assessment.risk_factors, "margin_too_low")
              /\ ~C27_Has(result.risk_assessment.risk_factors, "margin_marginal")
              /\ ~C27_Has(result.recommendations, "warn_margin_modest")
        /\ C27_Amounts.total_cost = 0 => ~result.feasibility

\* a feasible assessment whose net profit is exactly half of the total cost
C27_Witness ==
    /\ IsAssessment /\ result.feasibility
    /\ C27_Amounts.net_profit * 2 = C27_Amounts.total_cost
    /\ result.profit_margin = 3333

\* an assessment with a total cost of 0, found not feasible
C27_WitnessNoCost ==
    /\ IsAssessment
    /\ C27_Amounts.total_cost = 0
    /\ ~result.feasibility

\* the rate composed for the call, before it is clamped
C28_Composed == adjusted_rate(call.inventory, call.channel)

C28_Highest == Rat(11616, 100000)

\* C28: for every combination of channel tier, brand reputation, category and
\* expiry the rate composed by calculate_realization_rate before clamping is at
\* most 0.08 x 1.2 x 1.1 x 1.1 = 0.11616, so the upper clamp at 0.15 never
\* changes the result and the returned rate lies in [0.05, 0.11616]; only the
\* lower clamp at 0.05 is ever binding.
C28_UpperClampIdle ==
    call.op = "calculate_realization_rate" =>
        /\ Le(C28_Composed, C28_Highest)
        /\ RatEq(C28_Highest, RatMul(RatMul(RatMul(Rat(8, 100), Rat(12, 10)),
                                            Rat(11, 10)), Rat(11, 10)))
        /\ PyMin(max_realization_rate, C28_Composed) = C28_Composed
        /\ result = PyMax(min_realization_rate, C28_Composed)
        /\ Ge(result, Rat(5, 100)) /\ Le(result, C28_Highest)

\* the highest rate has been returned, unclamped
C28_Witness ==
    /\ call.op = "calculate_realization_rate"
    /\ call.channel.channel_type = "S" /\ call.inventory.reputation_score = 9
    /\ call.inventory.category = "food" /\ call.inventory.expiry_date = None
    /\ RatEq(result, C28_Highest)

\* the lower clamp has raised a composed rate
C28_WitnessFloor ==
    /\ call.op = "calculate_realization_rate"
    /\ Lt(C28_Composed, Rat(5, 100))
    /\ RatEq(result, Rat(5, 100))

\* the number of stored rows of risk_rules that carry a rule name
C29_Copies(rule_name) ==
    Cardinality({i \in DOMAIN risk_rules : risk_rules[i].rule_name = rule_name})

\* the number of times a violation is listed in a result
C29_Reported(violation) ==
    Cardinality({i \in DOMAIN result.violations : result.violations[i] = violation})

\* C29: however many times an InventoryManager has been created on the same
\* database, risk_rules holds exactly one copy of each of the four default
\* rules, and check_inventory_risk reports each violated rule once.
C29_RulesStoredOnce ==
    /\ Len(risk_rules) = 4
    /\ \A k \in DOMAIN default_rules : C29_Copies(default_rules[k].rule_name) = 1
    /\ call.op = "check_inventory_risk" =>
           \A i \in DOMAIN result.violations : C29_Reported(result.violations[i]) = 1

\* C29, the stored rules alone: one copy of each default rule
C29_OneCopyEach ==
    \A k \in DOMAIN default_rules : C29_Copies(default_rules[k].rule_name) = 1

\* C29, the report alone: no violated rule is listed twice
C29_ReportedOnce ==
    call.op = "check_inventory_risk" =>
        \A i \in DOMAIN result.violations : C29_Reported(result.violations[i]) = 1

\* thread t is a valuation that has read its item and not yet written back
C30_BetweenReadAndWrite(t) ==
    /\ t \in DOMAIN call
    /\ call[t].op = "calculate_realization_value"
    /\ call[t].pc \in {"read", "priced"}

\* the step is the write-back of thread t, made after the deletion of the item
\* it has read
C30_LateWriteBack(t) ==
    /\ At(t, "calculate_realization_value", "priced")
    /\ call'[t].pc = "done"
    /\ call[t].inventory_id \notin DOMAIN inventory

\* the write-back made after the deletion changes no record and the caller
\* of the valuation gets its result
C30_NoRecordWritten ==
    [][\A t \in RaceThreads :
           C30_LateWriteBack(t) =>
               /\ inventory' = inventory
               /\ call[t].inventory_id \notin DOMAIN inventory'
               /\ call'[t].rowcount = 0
               /\ result'[t] = valuation_from(call[t].inventory_id, call[t].inventory,
                                              call[t].price_info)]_vars

\* an item whose deletion has returned True is not stored
C30_StaysDeleted ==
    \A t \in DOMAIN call :
        (call[t].op = "delete_inventory" /\ call[t].pc = "done" /\ result[t] = TRUE)
            => call[t].inventory_id \notin DOMAIN inventory

\* C30: when delete_inventory(id) has committed between the read of
\* valuate(id) and its write-back, the write-back changes no record (the item
\* is not stored again and no other item changes), the item stays deleted and
\* the valuation is returned all the same.
C30_WriteBackAfterDelete == C30_NoRecordWritten /\ []C30_StaysDeleted

\* a valuation has read item 1, the deletion of item 1 has then committed, and
\* the valuation has written back to no row and returned its result
C30_Witness ==
    /\ call # <<>>
    /\ call[1].pc = "done" /\ call[1].rowcount = 0
    /\ "market_value" \in DOMAIN result[1]
    /\ call[3].inventory_id = 1 /\ call[3].pc = "done" /\ result[3] = TRUE
    /\ 1 \notin DOMAIN inventory
    /\ 2 \in DOMAIN inventory

\* the deletion has committed and the valuation is still to write back
C30_WitnessPending ==
    /\ call # <<>>
    /\ C30_BetweenReadAndWrite(1)
    /\ call[3].inventory_id = 1 /\ call[3].pc = "done" /\ result[3] = TRUE

====
